---------------------------- MODULE Spec2Model ----------------------------
(***************************************************************************)
(* saxi: the plot supervisor of src/server.ts (startServer, doPlot) on top *)
(* of the EBB serial driver (class EBB).                                   *)
(*                                                                         *)
(* Node runs one event (an HTTP request, a websocket message, a serial     *)
(* reply line, a timer) to completion, promise continuations included,    *)
(* before it takes the next event.  The model keeps one program counter    *)
(* per async call chain ("task"); a task that is not blocked on an event   *)
(* runs before any further event is taken (Quiescent guards the events).   *)
(*                                                                         *)
(* Units.  Times are integers in milliseconds.  Positions are integers in  *)
(* units of 1/Den planner step, so that d * stepMultiplier / Den is the    *)
(* displacement in microsteps and modf is exact.  XY blocks of the plans   *)
(* fed to the model are axis aligned, which makes vnorm and vlen exact.    *)
(***************************************************************************)
EXTENDS Integers, Sequences, FiniteSets, TLC

(***************************************************************************)
(* Bounds of the model                                                     *)
(***************************************************************************)
Den == 64          \* position resolution: units per planner step
MaxInputs == 3      \* requests, websocket messages and busy QM replies in one behaviour

(***************************************************************************)
(* Values                                                                  *)
(***************************************************************************)
Null == -1                      \* null of motionIdx, currentPlan, unpaused
Undefined == <<>>               \* cachedFirmwareVersion === undefined
OK == <<"OK">>                  \* the reply line "OK"
timestepMs == 15                \* executeXYMotionWithXM(plan, timestepMs = 15)
penUpPos == 17750               \* AxidrawFast.penUpPos = penPctToPos(50)
penDownPos == 15700             \* AxidrawFast.penDownPos = penPctToPos(60)
penDuration == 120              \* penDropDuration = penLiftDuration = 0.12 s

Abs(n) == IF n < 0 THEN -n ELSE n
Sgn(n) == IF n > 0 THEN 1 ELSE IF n < 0 THEN -1 ELSE 0
Min(a, b) == IF a < b THEN a ELSE b
Max(a, b) == IF a > b THEN a ELSE b

(***************************************************************************)
(* planning.ts: motions                                                    *)
(***************************************************************************)
Block(accel, duration, vInitial, p1, p2) ==
  [accel |-> accel, duration |-> duration, vInitial |-> vInitial, p1 |-> p1, p2 |-> p2]

\* the conditions under which the Block constructor does not throw
BlockOk(b) == b.vInitial >= 0 /\ b.vInitial + b.accel * b.duration >= 0

vFinal(b) == Max(0, b.vInitial + b.accel * b.duration)

\* the Block constructor with only its first test
BlockAccepted_FirstTestOnly(b, eps) == b.vInitial >= 0

\* the two tests of the Block constructor, for velocities in units of which
\* epsilon is eps; BlockOk is the case of units coarser than epsilon
BlockAccepted(b, eps) ==
  /\ b.vInitial >= 0
  /\ b.vInitial + b.accel * b.duration >= -eps

\* vlen(vsub(p1, p2)) of an axis-aligned block
distance(b) == Abs(b.p2[1] - b.p1[1]) + Abs(b.p2[2] - b.p1[2])

RECURSIVE SumDurations(_)
SumDurations(blocks) ==
  IF blocks = <<>> THEN 0 ELSE Head(blocks).duration + SumDurations(Tail(blocks))

\* XYMotion.ts: the start time of every block
ts(blocks) == [i \in 1..Len(blocks) |-> SumDurations(SubSeq(blocks, 1, i - 1))]

\* new XYMotion(blocks): the constructor computes ts once
XYMotion(blocks) == [type |-> "xy", blocks |-> blocks, ts |-> ts(blocks)]
PenMotion(initialPos, finalPos, duration) ==
  [type |-> "pen", initialPos |-> initialPos, finalPos |-> finalPos, pDuration |-> duration]

\* XYMotion.duration / PenMotion.duration
duration(m) == IF m.type = "xy" THEN SumDurations(m.blocks) ELSE m.pDuration

\* sortedIndex(array, obj): the first (0-based) index whose element is >= obj
sortedIndex(array, obj) == Cardinality({i \in 1..Len(array) : array[i] < obj})

\* Block.instant(tU).p
BlockInstantP(b, tU) ==
  LET tc == Max(0, Min(b.duration, tU))
      s == Max(0, Min(distance(b), b.vInitial * tc + (b.accel * tc * tc) \div 2))
  IN <<b.p1[1] + Sgn(b.p2[1] - b.p1[1]) * s, b.p1[2] + Sgn(b.p2[2] - b.p1[2]) * s>>

\* XYMotion.instant(t).p (1-based block index)
InstantP(m, t) ==
  LET idx == sortedIndex(m.ts, t)
      blockIdx == IF idx < Len(m.blocks) /\ m.ts[idx + 1] = t THEN idx + 1 ELSE idx
  IN BlockInstantP(m.blocks[blockIdx], t - m.ts[blockIdx])

(***************************************************************************)
(* The plans posted to the server.  PlanPoint, PlanTiny and PlanEmpty have *)
(* the shape plan() gives to one single-point polyline and to no polyline. *)
(***************************************************************************)
Travel(x1, x2, a, dur) ==
  LET s == (a * dur * dur) \div 2
      d == Sgn(x2 - x1)
  IN XYMotion(<< Block(a, dur, 0, <<x1, 0>>, <<x1 + d * s, 0>>),
                 Block(-a, dur, a * dur, <<x1 + d * s, 0>>, <<x2, 0>>) >>)

Dot(x) == XYMotion(<< Block(0, 0, 0, <<x, 0>>, <<x, 0>>) >>)

\* the same motion with x and y exchanged
Transposed(m) ==
  XYMotion([i \in 1..Len(m.blocks) |->
              [m.blocks[i] EXCEPT !.p1 = <<@[2], @[1]>>, !.p2 = <<@[2], @[1]>>]])

PenDown == PenMotion(penUpPos, penDownPos, penDuration)
PenUp == PenMotion(penDownPos, penUpPos, penDuration)

PlanPoint == << Travel(0, 450, 2, 15), PenDown, Dot(450), PenUp, Travel(450, 0, 2, 15) >>
\* PlanTiny moves along the y axis, by a fraction of a microstep per block
PlanTiny == << Transposed(Travel(0, 2, 2, 1)), PenDown, Transposed(Dot(2)), PenUp,
               Transposed(Travel(2, 0, 2, 1)) >>
PlanEmpty == << Dot(0) >>
PlanPenOnly == << PenDown >>

Plans == << PlanPoint, PlanTiny, PlanEmpty, PlanPenOnly >>
PlanIds == 1..Len(Plans)

\* a request body that JSON.parse or Plan.deserialize throws on
InvalidBody == 0
Bodies == PlanIds \cup {InvalidBody}

\* plan(): XY, pen down, XY, pen up, repeated, and a last XY
IsPlannerPlan(p) ==
  /\ Len(p) % 4 = 1
  /\ \A i \in 1..Len(p) :
       CASE i % 4 = 2 -> p[i].type = "pen" /\ p[i].initialPos > p[i].finalPos
         [] i % 4 = 0 -> p[i].type = "pen" /\ p[i].initialPos < p[i].finalPos
         [] OTHER -> p[i].type = "xy"

\* plan.motions.find((x) => x instanceof PenMotion): its index, 0 if none
firstPenMotion(p) ==
  LET pens == {i \in 1..Len(p) : p[i].type = "pen"}
  IN IF pens = {} THEN 0 ELSE CHOOSE i \in pens : \A j \in pens : i <= j


(***************************************************************************)
(* planning.ts: plan() and constantAccelerationPlan().  The points fed to  *)
(* the planner lie on one axis, so that directions are unit axis vectors;  *)
(* distances, accelerations and velocities are such that the square roots  *)
(* and the divisions are exact.  epsilon (1e-9) is below the resolution of *)
(* the positions: two points are more than epsilon apart iff they differ.  *)
(***************************************************************************)
\* the acceleration profiles of the tooling profile (units per ms, per ms^2)
penUpProfile == [acceleration |-> 2, maximumVelocity |-> 100]
penDownProfile == [acceleration |-> 2, maximumVelocity |-> 10]

\* Math.sqrt: the root of a perfect square; the root of another number is
\* rounded up, which keeps every comparison with a whole velocity (v > vMax)
\* as it is.  The polylines of the model are chosen so that a rounded root
\* never becomes the velocity or the duration of a block that is kept, see
\* BlockExact.
Sqrt(n) == CHOOSE r \in 0..n : r * r >= n /\ (r = 0 \/ (r - 1) * (r - 1) < n)

\* XYMotion.p1 / XYMotion.p2
p1(m) == m.blocks[1].p1
p2(m) == m.blocks[Len(m.blocks)].p2

\* vadd(p, vmul(vnorm(vsub(q, p)), s)) for p and q on a line parallel to an axis
Along(p, q, s) == <<p[1] + Sgn(q[1] - p[1]) * s, p[2] + Sgn(q[2] - p[2]) * s>>

RECURSIVE dedupPoints(_)
dedupPoints(points) ==
  IF Len(points) <= 1 THEN points
  ELSE LET dedupedPoints == dedupPoints(SubSeq(points, 1, Len(points) - 1))
           p == points[Len(points)]
       IN IF p # dedupedPoints[Len(dedupedPoints)] THEN Append(dedupedPoints, p)
          ELSE dedupedPoints

Segment(a, b) ==
  [p1 |-> a, p2 |-> b, maxEntryVelocity |-> 0, entryVelocity |-> 0, blocks |-> <<>>]

\* cornerVelocity that stops at every point
cornerVelocity_Stops(seg1, seg2, vMax) == 0

\* cornerVelocity of two segments along the same axis: cosine is 1 at a
\* reversal and -1 (sine 1) when the direction is kept
cornerVelocity(seg1, seg2, vMax) ==
  LET cosine == -(Sgn(seg1.p2[1] - seg1.p1[1]) * Sgn(seg2.p2[1] - seg2.p1[1])
                  + Sgn(seg1.p2[2] - seg1.p1[2]) * Sgn(seg2.p2[2] - seg2.p1[2]))
  IN CASE cosine = 1 -> 0
       [] cosine = -1 -> vMax

computeTriangle(d, initialVel, finalVel, accel, a, c) ==
  LET acceleratingDistance ==
        (2 * accel * d + finalVel * finalVel - initialVel * initialVel) \div (4 * accel)
      vMax == Sqrt(initialVel * initialVel + 2 * accel * acceleratingDistance)
  IN [s1 |-> acceleratingDistance, s2 |-> d - acceleratingDistance,
      t1 |-> (vMax - initialVel) \div accel, t2 |-> (vMax - finalVel) \div accel,
      vMax |-> vMax, p1 |-> a, p2 |-> Along(a, c, acceleratingDistance), p3 |-> c]

\* computeTrapezoid that decelerates for as long as it accelerated
computeTrapezoid_SameT3(d, initialVel, maxVel, finalVel, accel, a, c) ==
  LET t1 == (maxVel - initialVel) \div accel
      s1 == ((maxVel + initialVel) * t1) \div 2
      t3 == t1
      s3 == ((finalVel + maxVel) * t3) \div 2
      s2 == d - s1 - s3
  IN [s1 |-> s1, s2 |-> s2, s3 |-> s3, t1 |-> t1, t2 |-> s2 \div maxVel, t3 |-> t3,
      p1 |-> a, p2 |-> Along(a, c, s1), p3 |-> Along(a, c, d - s3), p4 |-> c]

computeTrapezoid(d, initialVel, maxVel, finalVel, accel, a, c) ==
  LET t1 == (maxVel - initialVel) \div accel
      s1 == ((maxVel + initialVel) * t1) \div 2
      t3 == (maxVel - finalVel) \div accel
      s3 == ((finalVel + maxVel) * t3) \div 2
      s2 == d - s1 - s3
  IN [s1 |-> s1, s2 |-> s2, s3 |-> s3, t1 |-> t1, t2 |-> s2 \div maxVel, t3 |-> t3,
      p1 |-> a, p2 |-> Along(a, c, s1), p3 |-> Along(a, c, d - s3), p4 |-> c]

\* the while loop of constantAccelerationPlan, from segment i (1-based) on
RECURSIVE planSegments(_, _, _)
planSegments(segments, i, profile) ==
  IF i >= Len(segments) THEN segments
  ELSE LET segment == segments[i]
           accel == profile.acceleration
           vMax == profile.maximumVelocity
           d == distance(segment)
           vInitial == segment.entryVelocity
           vExit == segments[i + 1].maxEntryVelocity
           m == computeTriangle(d, vInitial, vExit, accel, segment.p1, segment.p2)
           z == computeTrapezoid(d, vInitial, vMax, vExit, accel, segment.p1, segment.p2)
           vEnd == Sqrt(vInitial * vInitial + 2 * accel * d)
       IN IF m.s1 < 0
            THEN planSegments([segments EXCEPT ![i].maxEntryVelocity =
                                                 Sqrt(vExit * vExit + 2 * accel * d)],
                              i - 1, profile)
          ELSE IF m.s2 <= 0
            THEN planSegments([segments EXCEPT
                                 ![i].blocks = << Block(accel, (vEnd - vInitial) \div accel,
                                                        vInitial, segment.p1, segment.p2) >>,
                                 ![i + 1].entryVelocity = vEnd],
                              i + 1, profile)
          ELSE IF m.vMax > vMax
            THEN planSegments([segments EXCEPT
                                 ![i].blocks = << Block(accel, z.t1, vInitial, z.p1, z.p2),
                                                  Block(0, z.t2, vMax, z.p2, z.p3),
                                                  Block(-accel, z.t3, vMax, z.p3, z.p4) >>,
                                 ![i + 1].entryVelocity = vExit],
                              i + 1, profile)
          ELSE planSegments([segments EXCEPT
                               ![i].blocks = << Block(accel, m.t1, vInitial, m.p1, m.p2),
                                                Block(-accel, m.t2, m.vMax, m.p2, m.p3) >>,
                               ![i + 1].entryVelocity = vExit],
                            i + 1, profile)

\* the blocks of all segments whose duration is more than epsilon
RECURSIVE keptBlocks(_)
keptBlocks(segments) ==
  IF segments = <<>> THEN <<>>
  ELSE SelectSeq(Head(segments).blocks, LAMBDA b : b.duration > 0) \o keptBlocks(Tail(segments))

\* a block of whole numbers that is what the code computes: the velocity at
\* its end is not negative and it covers its distance in its duration
BlockExact(b) ==
  /\ b.vInitial + b.accel * b.duration >= 0
  /\ 2 * distance(b) = (2 * b.vInitial + b.accel * b.duration) * b.duration

constantAccelerationPlan(points, profile) ==
  LET dedupedPoints == dedupPoints(points)
      lastPoint == dedupedPoints[Len(dedupedPoints)]
      segments == [i \in 1..(Len(dedupedPoints) - 1) |->
                     [Segment(dedupedPoints[i], dedupedPoints[i + 1]) EXCEPT
                        !.maxEntryVelocity =
                          IF i = 1 THEN 0
                          ELSE cornerVelocity(Segment(dedupedPoints[i - 1], dedupedPoints[i]),
                                              Segment(dedupedPoints[i], dedupedPoints[i + 1]),
                                              profile.maximumVelocity)]]
  IN IF Len(dedupedPoints) = 1
       THEN XYMotion(<< Block(0, 0, 0, dedupedPoints[1], dedupedPoints[1]) >>)
       ELSE XYMotion(keptBlocks(planSegments(Append(segments, Segment(lastPoint, lastPoint)),
                                             1, profile)))

RECURSIVE planFrom(_, _, _)

\* plan() that draws with the profile of the pen-up moves
planFrom_DrawsFast(paths, curPos, penHome) ==
  IF paths = <<>>
    THEN << constantAccelerationPlan(<<curPos, penHome>>, penUpProfile) >>
    ELSE LET drawn == constantAccelerationPlan(Head(paths), penUpProfile)
             position == constantAccelerationPlan(<<curPos, p1(drawn)>>, penUpProfile)
         IN <<position, PenDown, drawn, PenUp>> \o planFrom(Tail(paths), p2(drawn), penHome)

\* plan() without the pen-up motion after a path
planFrom_NoPenUp(paths, curPos, penHome) ==
  IF paths = <<>>
    THEN << constantAccelerationPlan(<<curPos, penHome>>, penUpProfile) >>
    ELSE LET drawn == constantAccelerationPlan(Head(paths), penDownProfile)
             position == constantAccelerationPlan(<<curPos, p1(drawn)>>, penUpProfile)
         IN <<position, PenDown, drawn>> \o planFrom(Tail(paths), p2(drawn), penHome)

\* plan() without "curPos = motion.p2"
planFrom_KeepsCurPos(paths, curPos, penHome) ==
  IF paths = <<>>
    THEN << constantAccelerationPlan(<<curPos, penHome>>, penUpProfile) >>
    ELSE LET drawn == constantAccelerationPlan(Head(paths), penDownProfile)
             position == constantAccelerationPlan(<<curPos, p1(drawn)>>, penUpProfile)
         IN <<position, PenDown, drawn, PenUp>> \o planFrom(Tail(paths), curPos, penHome)

\* plan() that returns to penHome only when the pen is elsewhere
planFrom_NoEmptyReturn(paths, curPos, penHome) ==
  IF paths = <<>>
    THEN IF curPos = penHome THEN <<>>
         ELSE << constantAccelerationPlan(<<curPos, penHome>>, penUpProfile) >>
    ELSE LET drawn == constantAccelerationPlan(Head(paths), penDownProfile)
             position == constantAccelerationPlan(<<curPos, p1(drawn)>>, penUpProfile)
         IN <<position, PenDown, drawn, PenUp>> \o planFrom(Tail(paths), p2(drawn), penHome)

\* plan(paths, profile, penHome): the loop over the paths, from curPos on, and
\* the final return to penHome
planFrom(paths, curPos, penHome) ==
  IF paths = <<>>
    THEN << constantAccelerationPlan(<<curPos, penHome>>, penUpProfile) >>
    ELSE LET drawn == constantAccelerationPlan(Head(paths), penDownProfile)
             position == constantAccelerationPlan(<<curPos, p1(drawn)>>, penUpProfile)
         IN <<position, PenDown, drawn, PenUp>> \o planFrom(Tail(paths), p2(drawn), penHome)

planMotions(paths, penHome) == planFrom(paths, penHome, penHome)

(***************************************************************************)
(* planning.ts: Plan.withPenHeights                                        *)
(***************************************************************************)
\* penMotionIndex when map reaches motion j: the PenMotions before j
penMotionIndex(motions, j) == Cardinality({i \in 1..(j - 1) : motions[i].type = "pen"})

\* withPenHeights without the case of the last motion
withPenHeights_NoLastCase(motions, penUpHeight, penDownHeight) ==
  [j \in 1..Len(motions) |->
     IF motions[j].type = "xy" THEN motions[j]
     ELSE IF penMotionIndex(motions, j) % 2 = 0
       THEN PenMotion(penUpHeight, penDownHeight, duration(motions[j]))
       ELSE PenMotion(penDownHeight, penUpHeight, duration(motions[j]))]

\* the motions of the Plan that withPenHeights returns
withPenHeights(motions, penUpHeight, penDownHeight) ==
  [j \in 1..Len(motions) |->
     IF motions[j].type = "xy" THEN motions[j]
     ELSE IF j = Len(motions)
       THEN PenMotion(penDownHeight, penUpHeight, duration(motions[j]))
     ELSE IF penMotionIndex(motions, j) % 2 = 0
       THEN PenMotion(penUpHeight, penDownHeight, duration(motions[j]))
       ELSE PenMotion(penDownHeight, penUpHeight, duration(motions[j]))]

(***************************************************************************)
(* planning.ts: Plan.serialize and Plan.deserialize.  The serialized form  *)
(* of a motion has no class: an XYMotion is {blocks}, a PenMotion is       *)
(* {initialPos, finalPos, duration}.                                       *)
(***************************************************************************)
\* Plan.serialize: motions.map((m) => m.serialize()), with XYMotion.serialize,
\* Block.serialize and PenMotion.serialize
serialize(motions) ==
  [i \in 1..Len(motions) |->
     IF motions[i].type = "xy"
       THEN [blocks |-> [j \in 1..Len(motions[i].blocks) |->
                           LET b == motions[i].blocks[j]
                           IN [accel |-> b.accel, duration |-> b.duration,
                               vInitial |-> b.vInitial, p1 |-> b.p1, p2 |-> b.p2]]]
       ELSE [initialPos |-> motions[i].initialPos, finalPos |-> motions[i].finalPos,
             duration |-> motions[i].pDuration]]

\* Plan.deserialize throws on an element that has neither "blocks" nor
\* "initialPos", and when the Block constructor throws
deserializeThrows(o) ==
  \E i \in 1..Len(o) :
    IF "blocks" \in DOMAIN o[i]
      THEN \E j \in 1..Len(o[i].blocks) : ~BlockOk(o[i].blocks[j])
      ELSE "initialPos" \notin DOMAIN o[i]

\* Plan.deserialize that gives the fields of a PenMotion in the wrong order
deserialize_SwapsPen(o) ==
  [i \in 1..Len(o) |->
     IF "blocks" \in DOMAIN o[i]
       THEN XYMotion([j \in 1..Len(o[i].blocks) |->
                        LET b == o[i].blocks[j]
                        IN Block(b.accel, b.duration, b.vInitial, b.p1, b.p2)])
       ELSE PenMotion(o[i].finalPos, o[i].initialPos, o[i].duration)]

\* Plan.deserialize, with XYMotion.deserialize, Block.deserialize and
\* PenMotion.deserialize; new XYMotion computes ts again
deserialize(o) ==
  [i \in 1..Len(o) |->
     IF "blocks" \in DOMAIN o[i]
       THEN XYMotion([j \in 1..Len(o[i].blocks) |->
                        LET b == o[i].blocks[j]
                        IN Block(b.accel, b.duration, b.vInitial, b.p1, b.p2)])
       ELSE PenMotion(o[i].initialPos, o[i].finalPos, o[i].duration)]


(***************************************************************************)
(* State                                                                   *)
(***************************************************************************)
VARIABLES
  \* startServer
  plotting, cancelRequested, unpaused, signalUnpause, motionIdx, currentPlan,
  ebb,                  \* TRUE when an EBB is connected (ebb != null)
  \* doPlot and the request that started it
  plan,                 \* the posted plan (an index of Plans)
  plotter,              \* the plotter doPlot is called with: "real", "sim", or "none"
  penIsUp,
  it,                   \* position of "for (const motion of plan.motions)"
  awaited,              \* the promise "await unpaused" is suspended on
  blk,                  \* position of executeXYMotionWithLM's loop
  t,                    \* t of executeXYMotionWithXM
  \* class EBB
  commandQueue, microsteppingMode, error, cachedFirmwareVersion,
  \* the async call chains: doPlot and the handlers of the websocket messages
  tasks,
  \* the EBB board
  fw,                   \* the line the board answers to V
  dev,                  \* last pen height and motor state commanded
  \* observers
  resolved,             \* resolved promises that something still awaits
  res,                  \* the HTTP response sent by the last step, if any
  trace,                \* serial writes and broadcasts of the plot in progress
  nPlots,               \* POST /plot requests accepted so far
  nInputs,              \* requests, websocket messages and busy QM replies so far
  \* the planner
  paths,                \* the polylines given to plan()
  penHome,
  planned,              \* the motions of the Plan that plan() returns
  restored,             \* Plan.deserialize(planned.serialize())
  refined,              \* the Plan of paths with one more point on a segment
  rewritten,            \* a Plan and what withPenHeights returns for it
  built,                \* the arguments of a Block and what its construction gives
  sweep                 \* constantAccelerationPlan: segments and i of its while loop

server == <<plotting, cancelRequested, unpaused, signalUnpause, motionIdx, currentPlan, ebb>>
locals == <<plan, plotter, penIsUp, it, awaited, blk, t>>
driver == <<commandQueue, microsteppingMode, error, cachedFirmwareVersion>>
board == <<fw, dev>>
counts == <<nPlots, nInputs>>
planner == <<paths, penHome, planned, restored, refined, rewritten, built, sweep>>
vars == <<server, locals, driver, tasks, board, resolved, res, trace, counts, planner>>

\* doPlot, and the handler of one websocket message at a time
TaskIds == {"plot", "ws"}

\* the program points at which a call chain waits for an event
Blocked == {"idle", "body", "await", "paused", "timer", "exit"}
Quiescent ==
  /\ \A id \in TaskIds : tasks[id].pc \in Blocked
  /\ ~(tasks["plot"].pc = "paused" /\ awaited \in resolved)

At(self, label) == tasks[self].pc = label
Goto(self, label) == tasks' = [tasks EXCEPT ![self].pc = label]
\* a call chain that is not running
NoCall(label) == [pc |-> label, k |-> <<>>, ret |-> <<>>, arg |-> <<>>]

\* the call chain goes on with its continuation, an awaited value in ret; the
\* handler of a websocket message that has run to its end is gone
Resume(task, value) ==
  IF Head(task.k) = "exit"
    THEN NoCall("exit")
    ELSE [task EXCEPT !.pc = Head(task.k), !.k = Tail(task.k), !.ret = value]

\* an async function returns to the continuation of its caller
Return(self) ==
  tasks' = [tasks EXCEPT ![self] = Resume(tasks[self], tasks[self].ret)]
Call(self, label, after) ==
  tasks' = [tasks EXCEPT ![self].pc = label, ![self].k = <<after>> \o tasks[self].k]

Response(url, status, body) == [url |-> url, status |-> status, body |-> body]
NoResponse == Response("", 0, "")
Event(e, c, a, m) == [e |-> e, c |-> c, a |-> a, m |-> m]
\* the payload { paused: b } of a pause message; the arguments of the events
\* of a trace are tuples of integers
paused(b) == IF b THEN 1 ELSE 0
\* broadcast(msg), appended to the trace
broadcast(c, a) == Append(trace, Event("bcast", c, a, Null))

\* The lines a board answers to V, as sequences of characters: a name, a
\* space and the version "major.minor.patch"; and the line of the mock port
\* of the tests, which holds no version.
DigitChars == <<"0", "1", "2", "3", "4", "5", "6", "7", "8", "9">>
VersionLine(v) ==
  <<"E", "B", "B", " ">> \o <<DigitChars[v[1] + 1], ".", DigitChars[v[2] + 1], ".",
                               DigitChars[v[3] + 1]>>
UnversionedLine == <<"E", "B", "B", "v", "1", "3">>
FirmwareVersions == { <<2, 5, 2>>, <<2, 5, 3>>, <<2, 6, 0>> }
FirmwareLines == {VersionLine(v) : v \in FirmwareVersions} \cup {UnversionedLine}
WsHeights == {penDownPos}
WsRates == {1000}

\* plan() has not been called
NotPlanned == [done |-> FALSE, motions |-> <<>>]
NotRestored == [done |-> FALSE, threw |-> FALSE, data |-> <<>>, motions |-> <<>>]
\* no Block has been made of the arguments args
NotBuilt(args) == [done |-> FALSE, via |-> "none", threw |-> FALSE, args |-> args, blocks |-> <<>>]
NotRewritten == [done |-> FALSE, src |-> <<>>, up |-> 0, down |-> 0, motions |-> <<>>]
\* constantAccelerationPlan has not been called
NotSwept == [segments |-> <<>>, i |-> 0, profile |-> [acceleration |-> 0, maximumVelocity |-> 0]]

\* no request of a plot is in progress: its locals do not exist
NoLocals ==
  plan = Null /\ plotter = "none" /\ penIsUp = TRUE /\ it = 0 /\ awaited = Null /\ blk = 0 /\ t = 0

Init ==
  /\ plotting = FALSE /\ cancelRequested = FALSE
  /\ unpaused = Null /\ signalUnpause = Null
  /\ motionIdx = Null /\ currentPlan = Null
  /\ ebb \in BOOLEAN
  /\ NoLocals
  /\ commandQueue = <<>> /\ microsteppingMode = 0 /\ error = <<0, 0>>
  /\ cachedFirmwareVersion = Undefined
  /\ tasks = [id \in TaskIds |-> NoCall(IF id = "plot" THEN "idle" ELSE "exit")]
  /\ fw \in FirmwareLines
  /\ (~ebb => fw = VersionLine(<<2, 5, 2>>))
  /\ dev = [pen |-> 0, motors |-> FALSE]
  /\ resolved = {}
  /\ res = NoResponse
  /\ trace = <<>>
  /\ nPlots = 0 /\ nInputs = 0
  /\ paths = <<>> /\ penHome = <<0, 0>> /\ planned = NotPlanned
  /\ restored = NotRestored /\ refined = NotPlanned /\ rewritten = NotRewritten
  /\ built = NotBuilt(Block(0, 0, 0, <<0, 0>>, <<0, 0>>))
  /\ sweep = NotSwept

(***************************************************************************)
(* class EBB: the command queue                                            *)
(***************************************************************************)
\* what the board does with a command line
DeviceWrite(d, cmd, args) ==
  CASE cmd = "S2" -> [d EXCEPT !.pen = args[1]]
    [] cmd = "EM" -> [d EXCEPT !.motors = (args[1] # 0)]
    [] OTHER -> d

\* EBB.run: the generator writes its command and is queued; the caller awaits.
\* kind is the reply state machine (query, queryM or command), m the motion
\* the command belongs to, after the continuation of the caller; lines is the
\* local "result" of the generator of queryM, the lines it has been given.
run(self, kind, cmd, args, m, after) ==
  /\ commandQueue' = Append(commandQueue, [owner |-> self, kind |-> kind, cmd |-> cmd,
                                           args |-> args, lines |-> <<>>])
  /\ tasks' = [tasks EXCEPT ![self].pc = "await", ![self].k = after \o tasks[self].k]
  /\ dev' = DeviceWrite(dev, cmd, args)
  /\ trace' = IF self = "plot" THEN Append(trace, Event("write", cmd, args, m)) ELSE trace

command(self, cmd, args, m, after) == run(self, "command", cmd, args, m, after)
queryM(self, cmd, args, m, after) == run(self, "queryM", cmd, args, m, after)
query(self, cmd, args, m, after) == run(self, "query", cmd, args, m, after)

\* the lines the board may answer to the oldest command
idleLine == <<"1", "0", "0", "0", "0">>
busyLines == { <<"1", "1", "1", "0", "0">>, <<"1", "0", "0", "0", "1">> }
DeviceReplies(c) ==
  CASE c.cmd = "V" -> {fw}
    [] c.cmd = "QM" -> {idleLine} \cup (IF nInputs < MaxInputs THEN busyLines ELSE {})
    [] OTHER -> {OK}

\* the reader pipeline without the test of part[0] === '!': an error line is
\* handed to the generator of the oldest command as any other line
Dispatch_DeliversError(line) ==
  LET c == Head(commandQueue)
      rejected == c.kind = "command" /\ line # OK
  IN /\ commandQueue' = Tail(commandQueue)
     /\ tasks' = [tasks EXCEPT ![c.owner] =
          IF rejected
            THEN IF c.owner = "plot"
                   THEN [@ EXCEPT !.pc = "throw", !.k = <<>>, !.ret = line]
                   ELSE NoCall("exit")
            ELSE Resume(tasks[c.owner], line)]

\* the reader with a queue that is shifted on every line, also on a line that
\* the generator of a queryM takes without being done
Dispatch_ShiftsAlways(line) ==
  LET c == Head(commandQueue)
      rejected == line[1] = "!" \/ (c.kind = "command" /\ line # OK)
  IN /\ commandQueue' = Tail(commandQueue)
     /\ tasks' = [tasks EXCEPT ![c.owner] =
          IF rejected
            THEN IF c.owner = "plot"
                   THEN [@ EXCEPT !.pc = "throw", !.k = <<>>, !.ret = line]
                   ELSE NoCall("exit")
            ELSE Resume(tasks[c.owner], IF c.kind = "queryM" THEN c.lines ELSE line)]

\* the reader pipeline of the EBB constructor: one non-empty reply line
\* arrives while a command is pending
Dispatch(line) ==
  LET c == Head(commandQueue)
      rejected == line[1] = "!" \/ (c.kind = "command" /\ line # OK)
      done == c.kind # "queryM" \/ line = OK
  IN IF ~rejected /\ ~done
       THEN /\ commandQueue' = <<[c EXCEPT !.lines = Append(@, line)]>> \o Tail(commandQueue)
            /\ UNCHANGED tasks
       ELSE /\ commandQueue' = Tail(commandQueue)
            /\ tasks' = [tasks EXCEPT ![c.owner] =
                 IF rejected
                   THEN IF c.owner = "plot"
                          THEN [@ EXCEPT !.pc = "throw", !.k = <<>>, !.ret = line]
                          ELSE NoCall("exit")
                   ELSE Resume(tasks[c.owner], IF c.kind = "queryM" THEN c.lines ELSE line)]

SerialReply ==
  /\ Quiescent
  /\ ebb
  /\ commandQueue # <<>>
  /\ \E line \in DeviceReplies(Head(commandQueue)) :
       /\ Dispatch(line)
       /\ nInputs' = IF line \in busyLines THEN nInputs + 1 ELSE nInputs
  /\ UNCHANGED <<server, locals, microsteppingMode, error, cachedFirmwareVersion,
                 fw, dev, resolved, trace, nPlots>>
  /\ res' = NoResponse
  /\ UNCHANGED planner

(***************************************************************************)
(* class EBB: firmware version and capabilities                            *)
(***************************************************************************)
\* NaN, and undefined where it is compared with a number; a version part is
\* never negative
NaN == -1

\* Number(s) of a string: its value if it is made of decimal digits (0 for
\* the empty string), NaN if it holds another character
RECURSIVE Number(_)
Number(s) ==
  IF s = <<>> THEN 0
  ELSE LET d == {i \in 1..Len(DigitChars) : DigitChars[i] = s[Len(s)]}
           rest == Number(SubSeq(s, 1, Len(s) - 1))
       IN IF d = {} \/ rest = NaN THEN NaN ELSE 10 * rest + (CHOOSE i \in d : TRUE) - 1

\* s.split(sep)
RECURSIVE split(_, _)
split(s, sep) ==
  LET at == {i \in 1..Len(s) : s[i] = sep}
  IN IF at = {} THEN <<s>>
     ELSE LET i == CHOOSE j \in at : \A k \in at : j <= k
          IN <<SubSeq(s, 1, i - 1)>> \o split(SubSeq(s, i + 1, Len(s)), sep)

\* firmwareVersionNumber: the last word of the reply, split at the dots, each
\* part converted with Number; a part that is missing is undefined
ParseVersion(line) ==
  LET versionWords == split(line, " ")
      parts == split(versionWords[Len(versionWords)], ".")
  IN [i \in 1..3 |-> IF i <= Len(parts) THEN Number(parts[i]) ELSE NaN]

\* ParseVersion of the lines a board can answer, computed once
ParsedVersion == [line \in FirmwareLines |-> ParseVersion(line)]

\* a < b and a > b of JavaScript: false when an operand is NaN or undefined
Less(a, b) == a # NaN /\ b # NaN /\ a < b
Greater(a, b) == a # NaN /\ b # NaN /\ a > b

firmwareVersionCompare(major, minor, patch) ==
  LET v == cachedFirmwareVersion
  IN IF Less(v[1], major) THEN -1
     ELSE IF Greater(v[1], major) THEN 1
     ELSE IF Less(v[2], minor) THEN -1
     ELSE IF Greater(v[2], minor) THEN 1
     ELSE IF Less(v[3], patch) THEN -1
     ELSE IF Greater(v[3], patch) THEN 1
     ELSE 0

supportsLM == firmwareVersionCompare(2, 5, 3) >= 0
\* supportsSR with the version of supportsLM
supportsSR_From253 == firmwareVersionCompare(2, 5, 3) >= 0
supportsSR == firmwareVersionCompare(2, 6, 0) >= 0

\* the places that call supportsLM or supportsSR
VersionCallers == {"enableMotors_SR", "disableMotors_SR", "setPenHeight_SR", "executeXYMotion"}

\* firmwareVersion: no version is cached, so V is queried
firmwareVersion(self) ==
  /\ tasks[self].pc \in VersionCallers
  /\ cachedFirmwareVersion = Undefined
  /\ query(self, "V", <<>>, Null, <<"firmwareVersionNumber", tasks[self].pc>>)
  /\ UNCHANGED <<server, locals, microsteppingMode, error, cachedFirmwareVersion,
                 fw, resolved, counts>>
  /\ res' = NoResponse
  /\ UNCHANGED planner

\* firmwareVersionNumber: the reply to V is parsed and cached
firmwareVersionNumber(self) ==
  /\ At(self, "firmwareVersionNumber")
  /\ cachedFirmwareVersion' = ParsedVersion[tasks[self].ret]
  /\ Return(self)
  /\ UNCHANGED <<server, locals, commandQueue, microsteppingMode, error, board,
                 resolved, trace, counts>>
  /\ res' = NoResponse
  /\ UNCHANGED planner


(***************************************************************************)
(* class EBB: motors, servo, moves                                         *)
(***************************************************************************)
OutputPin == 4      \* setPenHeight: hardware 'v3'

\* get stepMultiplier throws "Invalid microstepping mode" in any other mode
validMicrosteppingMode == microsteppingMode \in 1..5

stepMultiplier ==
  CASE microsteppingMode = 5 -> 1
    [] microsteppingMode = 4 -> 2
    [] microsteppingMode = 3 -> 4
    [] microsteppingMode = 2 -> 8
    [] microsteppingMode = 1 -> 16

\* modf with Math.trunc in place of Math.floor
modf_Truncating(d, e) ==
  LET f == d * stepMultiplier + e
  IN IF f >= 0 THEN <<f % Den, f \div Den>> ELSE <<-((-f) % Den), -((-f) \div Den)>>

\* modf of the displacement d (in units of 1/Den step) scaled to microsteps,
\* plus the carried error e (in units of 1/Den microstep): <<frac, int>>
modf(d, e) ==
  LET f == d * stepMultiplier + e
  IN <<f % Den, f \div Den>>

enableMotors(self) ==
  /\ At(self, "enableMotors")
  /\ microsteppingMode' = 1
  /\ command(self, "EM", <<1, 1>>, Null, <<"enableMotors_SR">>)
  /\ UNCHANGED <<server, locals, error, cachedFirmwareVersion, fw, resolved, counts>>
  /\ res' = NoResponse
  /\ UNCHANGED planner

enableMotors_SR(self) ==
  /\ At(self, "enableMotors_SR")
  /\ cachedFirmwareVersion # Undefined
  /\ IF supportsSR
       THEN command(self, "SR", <<0, 1>>, Null, <<>>)
       ELSE Return(self) /\ UNCHANGED <<commandQueue, dev, trace>>
  /\ UNCHANGED <<server, locals, microsteppingMode, error, cachedFirmwareVersion,
                 fw, resolved, counts>>
  /\ res' = NoResponse
  /\ UNCHANGED planner

disableMotors(self) ==
  /\ At(self, "disableMotors")
  /\ command(self, "EM", <<0, 0>>, Null, <<"disableMotors_SR">>)
  /\ UNCHANGED <<server, locals, microsteppingMode, error, cachedFirmwareVersion,
                 fw, resolved, counts>>
  /\ res' = NoResponse
  /\ UNCHANGED planner

disableMotors_SR(self) ==
  /\ At(self, "disableMotors_SR")
  /\ cachedFirmwareVersion # Undefined
  /\ IF supportsSR
       THEN command(self, "SR", <<60000000, 0>>, Null, <<>>)
       ELSE Return(self) /\ UNCHANGED <<commandQueue, dev, trace>>
  /\ UNCHANGED <<server, locals, microsteppingMode, error, cachedFirmwareVersion,
                 fw, resolved, counts>>
  /\ res' = NoResponse
  /\ UNCHANGED planner

\* setPenHeight(height, rate, delay)
setPenHeight(self, height, rate, delay, m, after) ==
  command(self, "S2", <<height, OutputPin, rate, delay>>, m, after)

\* executePenMotion
executePenMotion(self, pm, m, after) ==
  LET diff == Abs(pm.finalPos - pm.initialPos)
      durMs == pm.pDuration
      rate == (2 * diff * 24 + durMs) \div (2 * durMs)
  IN setPenHeight(self, pm.finalPos, rate, durMs, m, after)

(***************************************************************************)
(* startServer: the HTTP handlers                                          *)
(***************************************************************************)
\* new Promise(...): a promise object that did not exist before
NewPromise == nInputs + 1

\* signalUnpause(): the promise is resolved; it matters only if it is awaited
Resolve(p) == IF awaited = p THEN resolved \cup {p} ELSE resolved

\* PostPlot without the "if (plotting)" rejection
PostPlot_Unguarded ==
  /\ Quiescent
  /\ plotting' = TRUE
  /\ \E p \in Bodies : plan' = p
  /\ Goto("plot", "body")
  /\ trace' = <<>>
  /\ res' = NoResponse
  /\ UNCHANGED <<cancelRequested, unpaused, signalUnpause, motionIdx, currentPlan, ebb,
                 plotter, penIsUp, it, awaited, blk, t, driver, board, resolved, counts>>
  /\ UNCHANGED planner

\* POST /plot
PostPlot ==
  /\ Quiescent
  /\ IF plotting
       THEN /\ nInputs < MaxInputs
            /\ nInputs' = nInputs + 1
            /\ res' = Response("/plot", 400, "Plot in progress")
            /\ UNCHANGED <<plotting, plan, tasks, trace, nPlots>>
       ELSE /\ nInputs < MaxInputs
            /\ nInputs' = nInputs + 1
            /\ plotting' = TRUE
            /\ \E p \in Bodies : plan' = p
            /\ Goto("plot", "body")
            /\ trace' = <<>>
            /\ nPlots' = nPlots + 1
            /\ res' = NoResponse
  /\ UNCHANGED <<cancelRequested, unpaused, signalUnpause, motionIdx, currentPlan, ebb,
                 plotter, penIsUp, it, awaited, blk, t, driver, board, resolved>>
  /\ UNCHANGED planner

\* POST /plot: req.on('end'), up to the call of doPlot
PlotRequestEnd ==
  /\ Quiescent
  /\ At("plot", "body")
  /\ IF plan = InvalidBody
       THEN \* the exception leaves the callback: no response is written
            /\ Goto("plot", "throw")
            /\ res' = NoResponse
            /\ UNCHANGED <<currentPlan, plotter>>
       ELSE /\ currentPlan' = plan
            /\ res' = Response("/plot", 200, "")
            /\ plotter' = IF ebb THEN "real" ELSE "sim"
            /\ Goto("plot", "doPlot")
  /\ UNCHANGED <<plotting, cancelRequested, unpaused, signalUnpause, motionIdx, ebb,
                 plan, penIsUp, it, awaited, blk, t, driver, board, resolved, trace, counts>>
  /\ UNCHANGED planner

\* the end of the request without "plotting = false"
PlotFinally_KeepsPlotting ==
  /\ tasks["plot"].pc \in {"plotReturn", "throw"}
  /\ tasks' = [tasks EXCEPT !["plot"] = NoCall("idle")]
  /\ plan' = Null /\ plotter' = "none" /\ penIsUp' = TRUE /\ it' = 0 /\ awaited' = Null /\ blk' = 0 /\ t' = 0
  /\ trace' = <<>>
  /\ UNCHANGED <<server, driver, board, resolved, counts>>
  /\ res' = NoResponse
  /\ UNCHANGED planner

\* POST /plot: the finally blocks, after doPlot has returned or thrown
PlotFinally ==
  /\ tasks["plot"].pc \in {"plotReturn", "throw"}
  /\ plotting' = FALSE
  /\ tasks' = [tasks EXCEPT !["plot"] = NoCall("idle")]
  /\ plan' = Null /\ plotter' = "none" /\ penIsUp' = TRUE /\ it' = 0 /\ awaited' = Null /\ blk' = 0 /\ t' = 0
  /\ trace' = <<>>
  /\ UNCHANGED <<cancelRequested, unpaused, signalUnpause, motionIdx, currentPlan, ebb,
                 driver, board, resolved, counts>>
  /\ res' = NoResponse
  /\ UNCHANGED planner

\* POST /cancel
PostCancel ==
  /\ Quiescent
  /\ nInputs < MaxInputs
  /\ nInputs' = nInputs + 1
  /\ cancelRequested' = TRUE
  /\ resolved' = IF unpaused # Null THEN Resolve(signalUnpause) ELSE resolved
  /\ unpaused' = Null
  /\ signalUnpause' = Null
  /\ res' = Response("/cancel", 200, "")
  /\ UNCHANGED <<plotting, motionIdx, currentPlan, ebb, locals, driver, tasks, board,
                 trace, nPlots>>
  /\ UNCHANGED planner

\* POST /pause without "if (!unpaused)": every request makes a new promise
PostPause_Unguarded ==
  /\ Quiescent
  /\ nInputs < MaxInputs
  /\ nInputs' = nInputs + 1
  /\ unpaused' = NewPromise /\ signalUnpause' = NewPromise
  /\ res' = Response("/pause", 200, "")
  /\ UNCHANGED <<plotting, cancelRequested, motionIdx, currentPlan, ebb, locals, driver,
                 tasks, board, resolved, trace, nPlots>>
  /\ UNCHANGED planner

\* POST /pause: the handler registered first answers the request
PostPause ==
  /\ Quiescent
  /\ nInputs < MaxInputs
  /\ nInputs' = nInputs + 1
  /\ IF unpaused = Null
       THEN unpaused' = NewPromise /\ signalUnpause' = NewPromise
       ELSE UNCHANGED <<unpaused, signalUnpause>>
  /\ res' = Response("/pause", 200, "")
  /\ UNCHANGED <<plotting, cancelRequested, motionIdx, currentPlan, ebb, locals, driver,
                 tasks, board, resolved, trace, nPlots>>
  /\ UNCHANGED planner

\* POST /resume
PostResume ==
  /\ Quiescent
  /\ IF signalUnpause # Null
       THEN /\ resolved' = Resolve(signalUnpause)
            /\ signalUnpause' = Null
            /\ unpaused' = Null
            /\ UNCHANGED nInputs
       ELSE /\ nInputs < MaxInputs
            /\ nInputs' = nInputs + 1
            /\ UNCHANGED <<resolved, signalUnpause, unpaused>>
  /\ res' = Response("/resume", 200, "")
  /\ UNCHANGED <<plotting, cancelRequested, motionIdx, currentPlan, ebb, locals, driver,
                 tasks, board, trace, nPlots>>
  /\ UNCHANGED planner

\* GET /plot/status
GetPlotStatus ==
  /\ Quiescent
  /\ nInputs < MaxInputs
  /\ nInputs' = nInputs + 1
  /\ res' = Response("/plot/status", 200, IF plotting THEN "plotting:true" ELSE "plotting:false")
  /\ UNCHANGED <<server, locals, driver, tasks, board, resolved, trace, nPlots>>
  /\ UNCHANGED planner


(***************************************************************************)
(* startServer: doPlot with realPlotter (ebb) or simPlotter (~ebb)         *)
(***************************************************************************)
\* plan.motions of the deserialized plan
motions == IF plan \in PlanIds THEN Plans[plan] ELSE <<>>
motion == motions[it]

\* doPlot without "cancelRequested = false"
doPlot_KeepsCancel ==
  /\ At("plot", "doPlot")
  /\ unpaused' = Null
  /\ signalUnpause' = Null
  /\ motionIdx' = 0
  /\ IF firstPenMotion(motions) = 0
       THEN Goto("plot", "throw")
       ELSE IF plotter = "real"
         THEN Call("plot", "enableMotors", "prePlot_setPenHeight")
         ELSE Goto("plot", "loopStart")
  /\ UNCHANGED <<plotting, cancelRequested, currentPlan, ebb, locals, driver, board,
                 resolved, trace, counts>>
  /\ res' = NoResponse
  /\ UNCHANGED planner

\* doPlot, up to the call of plotter.prePlot
doPlot ==
  /\ At("plot", "doPlot")
  /\ cancelRequested' = FALSE
  /\ unpaused' = Null
  /\ signalUnpause' = Null
  /\ motionIdx' = 0
  /\ IF firstPenMotion(motions) = 0
       THEN Goto("plot", "throw")       \* firstPenMotion.initialPos of undefined
       ELSE IF plotter = "real"
         THEN Call("plot", "enableMotors", "prePlot_setPenHeight")
         ELSE Goto("plot", "loopStart")
  /\ UNCHANGED <<plotting, currentPlan, ebb, locals, driver, board, resolved, trace, counts>>
  /\ res' = NoResponse
  /\ UNCHANGED planner

\* realPlotter.prePlot: setPenHeight(initialPenHeight, 1000, 1000)
prePlot_setPenHeight ==
  /\ At("plot", "prePlot_setPenHeight")
  /\ setPenHeight("plot", motions[firstPenMotion(motions)].initialPos, 1000, 1000, Null, <<"loopStart">>)
  /\ UNCHANGED <<server, locals, microsteppingMode, error, cachedFirmwareVersion,
                 fw, resolved, counts>>
  /\ res' = NoResponse
  /\ UNCHANGED planner

loopStart ==
  /\ At("plot", "loopStart")
  /\ penIsUp' = TRUE
  /\ it' = 1
  /\ Goto("plot", "loop")
  /\ UNCHANGED <<server, plan, plotter, awaited, blk, t, driver, board, resolved, trace, counts>>
  /\ res' = NoResponse
  /\ UNCHANGED planner

\* the head of the loop without broadcast({ c: "progress", ... })
loop_NoProgress ==
  /\ At("plot", "loop")
  /\ Goto("plot", IF it > Len(motions) THEN "loopEnd" ELSE "executeMotion")
  /\ UNCHANGED <<server, locals, driver, board, resolved, trace, counts>>
  /\ res' = NoResponse
  /\ UNCHANGED planner

\* for (const motion of plan.motions): broadcast progress
loop ==
  /\ At("plot", "loop")
  /\ IF it > Len(motions)
       THEN Goto("plot", "loopEnd") /\ UNCHANGED trace
       ELSE trace' = broadcast("progress", <<motionIdx>>) /\ Goto("plot", "executeMotion")
  /\ UNCHANGED <<server, locals, driver, board, resolved, counts>>
  /\ res' = NoResponse
  /\ UNCHANGED planner

\* plotter.executeMotion: EBB.executeMotion, or the timer of simPlotter;
\* realPlotter reads the variable ebb, which is null after a disconnection
executeMotion ==
  /\ At("plot", "executeMotion")
  /\ IF plotter = "sim"
       THEN Goto("plot", "timer") /\ UNCHANGED <<commandQueue, dev, trace>>
       ELSE IF ~ebb
         THEN Goto("plot", "throw") /\ UNCHANGED <<commandQueue, dev, trace>>
         ELSE IF motion.type = "xy"
           THEN Goto("plot", "executeXYMotion") /\ UNCHANGED <<commandQueue, dev, trace>>
           ELSE executePenMotion("plot", motion, motionIdx, <<"afterMotion">>)
  /\ UNCHANGED <<server, locals, microsteppingMode, error, cachedFirmwareVersion,
                 fw, resolved, counts>>
  /\ res' = NoResponse
  /\ UNCHANGED planner

\* simPlotter.executeMotion: setTimeout fires
Timer ==
  /\ Quiescent
  /\ At("plot", "timer")
  /\ Goto("plot", "afterMotion")
  /\ UNCHANGED <<server, locals, driver, board, resolved, trace, counts>>
  /\ res' = NoResponse
  /\ UNCHANGED planner

\* executeXYMotion that never takes the LM branch
executeXYMotion_OnlyXM ==
  /\ At("plot", "executeXYMotion")
  /\ cachedFirmwareVersion # Undefined
  /\ t' = 0 /\ Goto("plot", "executeXYMotionWithXM") /\ UNCHANGED blk
  /\ UNCHANGED <<server, plan, plotter, penIsUp, it, awaited, driver, board, resolved, trace, counts>>
  /\ res' = NoResponse
  /\ UNCHANGED planner

executeXYMotion ==
  /\ At("plot", "executeXYMotion")
  /\ cachedFirmwareVersion # Undefined
  /\ IF supportsLM
       THEN blk' = 1 /\ Goto("plot", "executeXYMotionWithLM") /\ UNCHANGED t
       ELSE t' = 0 /\ Goto("plot", "executeXYMotionWithXM") /\ UNCHANGED blk
  /\ UNCHANGED <<server, plan, plotter, penIsUp, it, awaited, driver, board, resolved, trace, counts>>
  /\ res' = NoResponse
  /\ UNCHANGED planner

\* executeBlockWithLM that keeps the old error when it emits no command
executeXYMotionWithLM_DropsSkipped ==
  /\ At("plot", "executeXYMotionWithLM")
  /\ IF blk > Len(motion.blocks)
       THEN Goto("plot", "afterMotion") /\ UNCHANGED <<blk, error, commandQueue, dev, trace>>
       ELSE LET block == motion.blocks[blk]
                mx == modf(block.p2[1] - block.p1[1], error[1])
                my == modf(block.p2[2] - block.p1[2], error[2])
            IN /\ blk' = blk + 1
               /\ IF mx[2] # 0 \/ my[2] # 0
                    THEN /\ error' = <<mx[1], my[1]>>
                         /\ command("plot", "LM", <<mx[2] + my[2], mx[2] - my[2]>>, motionIdx,
                                    <<"executeXYMotionWithLM">>)
                    ELSE UNCHANGED <<error, tasks, commandQueue, dev, trace>>
  /\ UNCHANGED <<server, plan, plotter, penIsUp, it, awaited, t, microsteppingMode,
                 cachedFirmwareVersion, fw, resolved, counts>>
  /\ res' = NoResponse
  /\ UNCHANGED planner

\* executeXYMotionWithLM and executeBlockWithLM; the LM command is written
\* with its two step counts (stepsAxis1, stepsAxis2), the rates left out
executeXYMotionWithLM ==
  /\ At("plot", "executeXYMotionWithLM")
  /\ IF blk > Len(motion.blocks)
       THEN Goto("plot", "afterMotion") /\ UNCHANGED <<blk, error, commandQueue, dev, trace>>
       ELSE IF ~validMicrosteppingMode
       THEN Goto("plot", "throw") /\ UNCHANGED <<blk, error, commandQueue, dev, trace>>
       ELSE LET block == motion.blocks[blk]
                mx == modf(block.p2[1] - block.p1[1], error[1])
                my == modf(block.p2[2] - block.p1[2], error[2])
                stepsX == mx[2]
                stepsY == my[2]
            IN /\ error' = <<mx[1], my[1]>>
               /\ blk' = blk + 1
               /\ IF stepsX # 0 \/ stepsY # 0
                    THEN IF block.vInitial * stepMultiplier > 0 \/ vFinal(block) * stepMultiplier > 0
                      THEN command("plot", "LM", <<stepsX + stepsY, stepsX - stepsY>>, motionIdx,
                                   <<"executeXYMotionWithLM">>)
                      ELSE \* moveWithAcceleration: Must have non-zero velocity during motion
                           Goto("plot", "throw") /\ UNCHANGED <<commandQueue, dev, trace>>
                    ELSE UNCHANGED <<tasks, commandQueue, dev, trace>>
  /\ UNCHANGED <<server, plan, plotter, penIsUp, it, awaited, t, microsteppingMode, cachedFirmwareVersion,
                 fw, resolved, counts>>
  /\ res' = NoResponse
  /\ UNCHANGED planner

\* executeXYMotionWithXM and moveAtConstantRate; i1, i2 and the results of
\* modf are the constants of one iteration, each computed once
executeXYMotionWithXM ==
  /\ At("plot", "executeXYMotionWithXM")
  /\ IF t < duration(motion) /\ ~validMicrosteppingMode
       THEN Goto("plot", "throw") /\ UNCHANGED <<t, error, commandQueue, dev, trace>>
       ELSE IF t < duration(motion)
       THEN \E i1 \in {InstantP(motion, t)}, i2 \in {InstantP(motion, t + timestepMs)} :
            \E mx \in {modf(i2[1] - i1[1], error[1])}, my \in {modf(i2[2] - i1[2], error[2])} :
               /\ error' = <<mx[1], my[1]>>
               /\ t' = t + timestepMs
               /\ command("plot", "XM", <<timestepMs, mx[2], my[2]>>, motionIdx,
                          <<"executeXYMotionWithXM">>)
       ELSE Goto("plot", "afterMotion") /\ UNCHANGED <<t, error, commandQueue, dev, trace>>
  /\ UNCHANGED <<server, plan, plotter, penIsUp, it, awaited, blk, microsteppingMode, cachedFirmwareVersion,
                 fw, resolved, counts>>
  /\ res' = NoResponse
  /\ UNCHANGED planner

\* afterMotion with "if (unpaused)" in place of "if (unpaused && penIsUp)"
afterMotion_PauseAnywhere ==
  /\ At("plot", "afterMotion")
  /\ penIsUp' = IF motion.type = "pen" THEN motion.initialPos < motion.finalPos ELSE penIsUp
  /\ IF unpaused # Null
       THEN awaited' = unpaused /\ Goto("plot", "paused")
       ELSE UNCHANGED awaited /\ Goto("plot", "checkCancel")
  /\ UNCHANGED <<server, plan, plotter, it, blk, t, driver, board, resolved, trace, counts>>
  /\ res' = NoResponse
  /\ UNCHANGED planner

\* after executeMotion: penIsUp, and the pause at a pen-up boundary
afterMotion ==
  /\ At("plot", "afterMotion")
  /\ penIsUp' = IF motion.type = "pen" THEN motion.initialPos < motion.finalPos ELSE penIsUp
  /\ IF unpaused # Null /\ penIsUp'
       THEN awaited' = unpaused /\ Goto("plot", "paused")
       ELSE UNCHANGED awaited /\ Goto("plot", "checkCancel")
  /\ UNCHANGED <<server, plan, plotter, it, blk, t, driver, board, resolved, trace, counts>>
  /\ res' = NoResponse
  /\ UNCHANGED planner

\* "await unpaused" returns
Unpaused ==
  /\ At("plot", "paused")
  /\ awaited \in resolved
  /\ resolved' = resolved \ {awaited}
  /\ awaited' = Null
  /\ trace' = broadcast("pause", <<paused(FALSE)>>)
  /\ Goto("plot", "checkCancel")
  /\ UNCHANGED <<server, plan, plotter, penIsUp, it, blk, t, driver, board, counts>>
  /\ res' = NoResponse
  /\ UNCHANGED planner

\* the end of the loop body without "if (cancelRequested) { break; }"
checkCancel_NoBreak ==
  /\ At("plot", "checkCancel")
  /\ motionIdx' = motionIdx + 1 /\ it' = it + 1 /\ Goto("plot", "loop")
  /\ UNCHANGED <<plotting, cancelRequested, unpaused, signalUnpause, currentPlan, ebb,
                 plan, plotter, penIsUp, awaited, blk, t, driver, board, resolved, trace, counts>>
  /\ res' = NoResponse
  /\ UNCHANGED planner

\* if (cancelRequested) { break; } motionIdx += 1;
checkCancel ==
  /\ At("plot", "checkCancel")
  /\ IF cancelRequested
       THEN Goto("plot", "loopEnd") /\ UNCHANGED <<motionIdx, it>>
       ELSE motionIdx' = motionIdx + 1 /\ it' = it + 1 /\ Goto("plot", "loop")
  /\ UNCHANGED <<plotting, cancelRequested, unpaused, signalUnpause, currentPlan, ebb,
                 plan, plotter, penIsUp, awaited, blk, t, driver, board, resolved, trace, counts>>
  /\ res' = NoResponse
  /\ UNCHANGED planner

\* after the loop
loopEnd ==
  /\ At("plot", "loopEnd")
  /\ motionIdx' = Null
  /\ currentPlan' = Null
  /\ IF cancelRequested
       THEN /\ Goto("plot", IF plotter = "real" THEN "postCancel" ELSE "cancelled")
            /\ UNCHANGED trace
       ELSE /\ trace' = broadcast("finished", <<>>)
            /\ Goto("plot", "postPlot")
  /\ UNCHANGED <<plotting, cancelRequested, unpaused, signalUnpause, ebb, locals, driver,
                 board, resolved, counts>>
  /\ res' = NoResponse
  /\ UNCHANGED planner

\* postCancel without the setPenHeight that raises the pen
postCancel_NoPenUp ==
  /\ At("plot", "postCancel")
  /\ Goto("plot", "postCancel_HM")
  /\ UNCHANGED <<server, locals, driver, board, resolved, trace, counts>>
  /\ res' = NoResponse
  /\ UNCHANGED planner

\* realPlotter.postCancel
postCancel ==
  /\ At("plot", "postCancel")
  /\ IF ebb
       THEN setPenHeight("plot", motions[firstPenMotion(motions)].initialPos, 1000, 0, Null,
                         <<"postCancel_HM">>)
       ELSE Goto("plot", "throw") /\ UNCHANGED <<commandQueue, dev, trace>>
  /\ UNCHANGED <<server, locals, microsteppingMode, error, cachedFirmwareVersion,
                 fw, resolved, counts>>
  /\ res' = NoResponse
  /\ UNCHANGED planner

postCancel_HM ==
  /\ At("plot", "postCancel_HM")
  /\ query("plot", "HM", <<4000>>, Null, <<"cancelled">>)
  /\ UNCHANGED <<server, locals, microsteppingMode, error, cachedFirmwareVersion,
                 fw, resolved, counts>>
  /\ res' = NoResponse
  /\ UNCHANGED planner

cancelled ==
  /\ At("plot", "cancelled")
  /\ trace' = broadcast("cancelled", <<>>)
  /\ cancelRequested' = FALSE
  /\ Goto("plot", "postPlot")
  /\ UNCHANGED <<plotting, unpaused, signalUnpause, motionIdx, currentPlan, ebb, locals,
                 driver, board, resolved, counts>>
  /\ res' = NoResponse
  /\ UNCHANGED planner

\* plotter.postPlot
postPlot ==
  /\ At("plot", "postPlot")
  /\ Goto("plot", IF plotter = "sim" THEN "plotReturn"
                   ELSE IF ebb THEN "waitUntilMotorsIdle" ELSE "throw")
  /\ UNCHANGED <<server, locals, driver, board, resolved, trace, counts>>
  /\ res' = NoResponse
  /\ UNCHANGED planner

waitUntilMotorsIdle ==
  /\ At("plot", "waitUntilMotorsIdle")
  /\ query("plot", "QM", <<>>, Null, <<"waitUntilMotorsIdle_reply">>)
  /\ UNCHANGED <<server, locals, microsteppingMode, error, cachedFirmwareVersion,
                 fw, resolved, counts>>
  /\ res' = NoResponse
  /\ UNCHANGED planner

\* waitUntilMotorsIdle that polls QM once and does not look at the reply
waitUntilMotorsIdle_reply_Once ==
  /\ At("plot", "waitUntilMotorsIdle_reply")
  /\ Call("plot", "disableMotors", "plotReturn")
  /\ UNCHANGED <<server, locals, driver, board, resolved, trace, counts>>
  /\ res' = NoResponse
  /\ UNCHANGED planner

waitUntilMotorsIdle_reply ==
  /\ At("plot", "waitUntilMotorsIdle_reply")
  /\ LET status == tasks["plot"].ret
     IN IF status[2] = "0" /\ status[5] = "0"
          THEN Call("plot", "disableMotors", "plotReturn")
          ELSE Goto("plot", "waitUntilMotorsIdle")
  /\ UNCHANGED <<server, locals, driver, board, resolved, trace, counts>>
  /\ res' = NoResponse
  /\ UNCHANGED planner

(***************************************************************************)
(* startServer: the websocket messages                                     *)
(***************************************************************************)
\* case "limp"
WsLimp ==
  /\ Quiescent
  /\ At("ws", "exit")
  /\ nInputs < MaxInputs
  /\ ebb
  /\ tasks' = [tasks EXCEPT !["ws"].pc = "disableMotors", !["ws"].k = <<"exit">>]
  /\ nInputs' = nInputs + 1
  /\ UNCHANGED <<server, locals, driver, board, resolved, trace, nPlots>>
  /\ res' = NoResponse
  /\ UNCHANGED planner

\* case "setPenHeight"
WsSetPenHeight ==
  /\ Quiescent
  /\ At("ws", "exit")
  /\ nInputs < MaxInputs
  /\ ebb
  /\ \E height \in WsHeights, rate \in WsRates :
       tasks' = [tasks EXCEPT !["ws"].pc = "setPenHeight_SR",
                              !["ws"].k = <<"exit">>,
                              !["ws"].arg = <<height, rate>>]
  /\ nInputs' = nInputs + 1
  /\ UNCHANGED <<server, locals, driver, board, resolved, trace, nPlots>>
  /\ res' = NoResponse
  /\ UNCHANGED planner

setPenHeight_SR(self) ==
  /\ At(self, "setPenHeight_SR")
  /\ cachedFirmwareVersion # Undefined
  /\ IF supportsSR
       THEN command(self, "SR", <<10000000, 1>>, Null, <<"setPenHeight_S2">>)
       ELSE Goto(self, "setPenHeight_S2") /\ UNCHANGED <<commandQueue, dev, trace>>
  /\ UNCHANGED <<server, locals, microsteppingMode, error, cachedFirmwareVersion,
                 fw, resolved, counts>>
  /\ res' = NoResponse
  /\ UNCHANGED planner

setPenHeight_S2(self) ==
  /\ At(self, "setPenHeight_S2")
  /\ setPenHeight(self, tasks[self].arg[1], tasks[self].arg[2], 0, Null, <<>>)
  /\ UNCHANGED <<server, locals, microsteppingMode, error, cachedFirmwareVersion,
                 fw, resolved, counts>>
  /\ res' = NoResponse
  /\ UNCHANGED planner

(***************************************************************************)
(* Specification                                                           *)
(***************************************************************************)
Http == PostPlot \/ PlotRequestEnd \/ PostCancel \/ PostPause \/ PostResume \/ GetPlotStatus

Ws == WsLimp \/ WsSetPenHeight

Plot ==
  \/ doPlot \/ prePlot_setPenHeight \/ loopStart \/ loop \/ executeMotion
  \/ executeXYMotion \/ executeXYMotionWithLM \/ executeXYMotionWithXM
  \/ afterMotion \/ Unpaused \/ checkCancel \/ loopEnd
  \/ postCancel \/ postCancel_HM \/ cancelled
  \/ postPlot \/ waitUntilMotorsIdle \/ waitUntilMotorsIdle_reply \/ PlotFinally

Driver ==
  \E self \in TaskIds :
    \/ firmwareVersion(self) \/ firmwareVersionNumber(self)
    \/ enableMotors(self) \/ enableMotors_SR(self)
    \/ disableMotors(self) \/ disableMotors_SR(self)
    \/ setPenHeight_SR(self) \/ setPenHeight_S2(self)

Next == Http \/ Ws \/ Plot \/ Driver \/ SerialReply \/ Timer

Spec == Init /\ [][Next]_vars

\* The system does not stop while it can go on: the event loop runs the
\* continuations that are ready, the board answers the commands, timers
\* fire, the body of an accepted request arrives, and no pause is left
\* pending (a pause is followed by POST /resume).
Progress ==
  \/ Plot \/ Driver \/ SerialReply \/ Timer \/ PlotRequestEnd
  \/ (PostResume /\ signalUnpause # Null)

FairSpec == Spec /\ WF_vars(Progress)

(***************************************************************************)
(* Faults: a board that rejects a command, a serial port that goes away    *)
(***************************************************************************)
\* an error line of the board, and a line that is neither OK nor an error
errorLine == <<"!", "8 Err: Unknown command">>
unexpectedLine == <<"OKAY">>
DeviceErrors(c) == {errorLine} \cup (IF c.kind = "command" THEN {unexpectedLine} ELSE {})

\* the reader pipeline takes a line that makes the oldest command fail: the
\* queue rejects on "!", and EBB.command throws on a line other than OK
SerialError ==
  /\ Quiescent
  /\ ebb
  /\ commandQueue # <<>>
  /\ nInputs < MaxInputs
  /\ nInputs' = nInputs + 1
  /\ \E line \in DeviceErrors(Head(commandQueue)) : Dispatch(line)
  /\ UNCHANGED <<server, locals, microsteppingMode, error, cachedFirmwareVersion,
                 fw, dev, resolved, trace, nPlots>>
  /\ res' = NoResponse
  /\ UNCHANGED planner

\* ebbs(): the port emits 'disconnect' and the generator yields null, which
\* connect() stores in ebb; the commands in the queue of the EBB object are
\* left as they are, and no line arrives for them any more
Disconnect ==
  /\ Quiescent
  /\ ebb
  /\ nInputs < MaxInputs
  /\ nInputs' = nInputs + 1
  /\ ebb' = FALSE
  /\ UNCHANGED <<plotting, cancelRequested, unpaused, signalUnpause, motionIdx, currentPlan,
                 locals, driver, tasks, board, resolved, trace, nPlots>>
  /\ res' = NoResponse
  /\ UNCHANGED planner

\* ebbs(): the port is opened again and the generator yields a new EBB, with
\* an empty queue and the initial values of its fields; the call chains that
\* awaited a reply on the old object stay suspended
Reconnect ==
  /\ Quiescent
  /\ ~ebb
  /\ nInputs < MaxInputs
  /\ nInputs' = nInputs + 1
  /\ ebb' = TRUE
  /\ commandQueue' = <<>> /\ microsteppingMode' = 0 /\ error' = <<0, 0>>
  /\ cachedFirmwareVersion' = Undefined
  /\ UNCHANGED <<plotting, cancelRequested, unpaused, signalUnpause, motionIdx, currentPlan,
                 locals, tasks, board, resolved, trace, nPlots>>
  /\ res' = NoResponse
  /\ UNCHANGED planner

FaultNext == Next \/ SerialError \/ Disconnect \/ Reconnect

FaultSpec == Init /\ [][FaultNext]_vars

FairFaultSpec == FaultSpec /\ WF_vars(Progress)

(***************************************************************************)
(* plan() applied to the lists of at most MaxPaths polylines of at most    *)
(* MaxPoints points each; a polyline has at least one point (plan() throws *)
(* on an empty polyline)                                                   *)
(***************************************************************************)
MaxPaths == 2
MaxPoints == 3
Coordinates == {0, 450}
Points == {<<x, 0>> : x \in Coordinates}
Polylines == UNION {[1..n -> Points] : n \in 1..MaxPoints}
PathLists == UNION {[1..n -> Polylines] : n \in 0..MaxPaths}

PlanInit ==
  /\ plotting = FALSE /\ cancelRequested = FALSE
  /\ unpaused = Null /\ signalUnpause = Null
  /\ motionIdx = Null /\ currentPlan = Null
  /\ ebb = FALSE
  /\ NoLocals
  /\ commandQueue = <<>> /\ microsteppingMode = 0 /\ error = <<0, 0>>
  /\ cachedFirmwareVersion = Undefined
  /\ tasks = [id \in TaskIds |-> NoCall(IF id = "plot" THEN "idle" ELSE "exit")]
  /\ fw = VersionLine(<<2, 5, 2>>)
  /\ dev = [pen |-> 0, motors |-> FALSE]
  /\ resolved = {}
  /\ res = NoResponse
  /\ trace = <<>>
  /\ nPlots = 0 /\ nInputs = 0
  /\ paths \in PathLists
  /\ penHome \in Points
  /\ planned = NotPlanned
  /\ restored = NotRestored /\ refined = NotPlanned /\ rewritten = NotRewritten
  /\ built = NotBuilt(Block(0, 0, 0, <<0, 0>>, <<0, 0>>))
  /\ sweep = NotSwept

\* plan(paths, profile, penHome) is called and returns
ApplyPlan ==
  /\ ~planned.done
  /\ planned' = [done |-> TRUE, motions |-> planMotions(paths, penHome)]
  /\ UNCHANGED <<server, locals, driver, tasks, board, resolved, res, trace, counts,
                 paths, penHome, restored, refined, rewritten, built, sweep>>

\* Plan.deserialize(p.serialize()) for the plan p that plan() returned
RoundTrip ==
  /\ planned.done /\ ~restored.done
  /\ LET data == serialize(planned.motions)
     IN restored' = IF deserializeThrows(data)
                      THEN [done |-> TRUE, threw |-> TRUE, data |-> data, motions |-> <<>>]
                      ELSE [done |-> TRUE, threw |-> FALSE, data |-> data,
                            motions |-> deserialize(data)]
  /\ UNCHANGED <<server, locals, driver, tasks, board, resolved, res, trace, counts,
                 paths, penHome, planned, refined, rewritten, built, sweep>>

PlanNext == ApplyPlan \/ RoundTrip

PlanSpec == PlanInit /\ [][PlanNext]_vars

(***************************************************************************)
(* plan() on one polyline that runs along a line and passes through some   *)
(* points of the line, and on the same polyline with one more point of the *)
(* line (planning.test.ts: "shouldn't slow down for a fake point").  The   *)
(* points of a line are such that every block the planner keeps has whole  *)
(* velocities, durations and end points.                                   *)
(***************************************************************************)
DrawLines == { [end |-> 450, interior |-> {4, 16, 225, 434, 446}],
               [end |-> 32, interior |-> {4, 16, 28}] }

RECURSIVE Ascending(_)
Ascending(S) ==
  IF S = {} THEN <<>>
  ELSE LET m == CHOOSE x \in S : \A y \in S : x <= y
       IN <<m>> \o Ascending(S \ {m})

Reverse(s) == [i \in 1..Len(s) |-> s[Len(s) + 1 - i]]

\* from 0 to the end of the line through at most MaxPoints points of it
LinePolylines(line) ==
  { [i \in 1..(Cardinality(sub) + 2) |->
       <<(<<0>> \o Ascending(sub) \o <<line.end>>)[i], 0>>] :
    sub \in {x \in SUBSET line.interior : Cardinality(x) <= MaxPoints} }

\* the same in the other direction, and there and back
DrawPolylines ==
  UNION { {pl, Reverse(pl), pl \o Tail(Reverse(pl))} :
          pl \in UNION {LinePolylines(line) : line \in DrawLines} }

DrawInit ==
  /\ plotting = FALSE /\ cancelRequested = FALSE
  /\ unpaused = Null /\ signalUnpause = Null
  /\ motionIdx = Null /\ currentPlan = Null
  /\ ebb = FALSE
  /\ NoLocals
  /\ commandQueue = <<>> /\ microsteppingMode = 0 /\ error = <<0, 0>>
  /\ cachedFirmwareVersion = Undefined
  /\ tasks = [id \in TaskIds |-> NoCall(IF id = "plot" THEN "idle" ELSE "exit")]
  /\ fw = VersionLine(<<2, 5, 2>>)
  /\ dev = [pen |-> 0, motors |-> FALSE]
  /\ resolved = {}
  /\ res = NoResponse
  /\ trace = <<>>
  /\ nPlots = 0 /\ nInputs = 0
  /\ paths \in {<<pl>> : pl \in DrawPolylines}
  /\ penHome = <<0, 0>>
  /\ planned = NotPlanned
  /\ restored = NotRestored /\ refined = NotPlanned /\ rewritten = NotRewritten
  /\ built = NotBuilt(Block(0, 0, 0, <<0, 0>>, <<0, 0>>))
  /\ sweep = NotSwept

\* the points of the polyline's line that lie strictly between a and b
Between(a, b) ==
  LET line == CHOOSE l \in DrawLines : \E i \in 1..Len(paths[1]) : paths[1][i][1] = l.end
  IN { <<x, 0>> : x \in { x \in line.interior :
                            (a[1] < x /\ x < b[1]) \/ (b[1] < x /\ x < a[1]) } }

\* plan() of the polyline with a point inserted on one of its segments
InsertPoint ==
  /\ planned.done /\ ~refined.done
  /\ \E i \in 1..(Len(paths[1]) - 1) :
       \E q \in Between(paths[1][i], paths[1][i + 1]) :
         LET path == SubSeq(paths[1], 1, i) \o <<q>> \o SubSeq(paths[1], i + 1, Len(paths[1]))
         IN refined' = [done |-> TRUE, motions |-> planMotions(<<path>>, penHome)]
  /\ UNCHANGED <<server, locals, driver, tasks, board, resolved, res, trace, counts,
                 paths, penHome, planned, restored, rewritten, built, sweep>>

DrawNext == ApplyPlan \/ InsertPoint

DrawSpec == DrawInit /\ [][DrawNext]_vars

(***************************************************************************)
(* class EBB alone: callers that issue query, queryM and command, and a    *)
(* port that delivers lines whether or not a command is pending.  A caller *)
(* that has its value is at "caller" with the value in ret.  The lines     *)
(* read are recorded in the trace.                                         *)
(***************************************************************************)
MaxLines == 5      \* calls and lines in a behaviour of QueueSpec
Kinds == {"query", "queryM", "command"}
dataLine == <<"1">>
emptyLine == <<>>
PortLines == {OK, dataLine, errorLine, emptyLine}

QueueInit ==
  /\ plotting = FALSE /\ cancelRequested = FALSE
  /\ unpaused = Null /\ signalUnpause = Null
  /\ motionIdx = Null /\ currentPlan = Null
  /\ ebb = TRUE
  /\ NoLocals
  /\ commandQueue = <<>> /\ microsteppingMode = 0 /\ error = <<0, 0>>
  /\ cachedFirmwareVersion = Undefined
  /\ tasks = [id \in TaskIds |-> NoCall("caller")]
  /\ fw = VersionLine(<<2, 5, 2>>)
  /\ dev = [pen |-> 0, motors |-> FALSE]
  /\ resolved = {}
  /\ res = NoResponse
  /\ trace = <<>>
  /\ nPlots = 0 /\ nInputs = 0
  /\ paths = <<>> /\ penHome = <<0, 0>> /\ planned = NotPlanned
  /\ restored = NotRestored /\ refined = NotPlanned /\ rewritten = NotRewritten
  /\ built = NotBuilt(Block(0, 0, 0, <<0, 0>>, <<0, 0>>))
  /\ sweep = NotSwept

\* a caller that is not waiting calls query, queryM or command
Issue(self) ==
  /\ tasks[self].pc \in {"caller", "throw", "exit"}
  /\ nInputs < MaxLines
  /\ nInputs' = nInputs + 1
  /\ \E kind \in Kinds : run(self, kind, "QB", <<>>, Null, <<"caller">>)
  /\ UNCHANGED <<server, locals, microsteppingMode, error, cachedFirmwareVersion,
                 fw, resolved, nPlots>>
  /\ res' = NoResponse
  /\ UNCHANGED planner

\* the reader: one part of a chunk, split at the line ends
PortLine ==
  /\ nInputs < MaxLines
  /\ nInputs' = nInputs + 1
  /\ \E part \in PortLines :
       /\ IF part = emptyLine \/ commandQueue = <<>>
            THEN UNCHANGED <<commandQueue, tasks>>     \* skipped, or "unexpected data"
            ELSE Dispatch(part)
       /\ trace' = Append(trace, Event("read", "line", part, Null))
  /\ UNCHANGED <<server, locals, microsteppingMode, error, cachedFirmwareVersion,
                 board, resolved, nPlots>>
  /\ res' = NoResponse
  /\ UNCHANGED planner

QueueNext == (\E self \in TaskIds : Issue(self)) \/ PortLine

QueueSpec == QueueInit /\ [][QueueNext]_vars

(***************************************************************************)
(* new Block(...) and Block.deserialize(...) on arguments that the planner *)
(* does not produce.  Velocities are in units of epsilon here, so that a   *)
(* final velocity between -epsilon and 0 can be told from one below.       *)
(***************************************************************************)
epsilonUnit == 1

BlockArgs ==
  { Block(a, d, v, <<0, 0>>, <<x, 0>>) :
      a \in {-2, -1, 0, 1}, d \in {0, 1, 2}, v \in {-1, 0, 1, 3}, x \in {0, 4, 9} }

BlockInit ==
  /\ plotting = FALSE /\ cancelRequested = FALSE
  /\ unpaused = Null /\ signalUnpause = Null
  /\ motionIdx = Null /\ currentPlan = Null
  /\ ebb = FALSE
  /\ NoLocals
  /\ commandQueue = <<>> /\ microsteppingMode = 0 /\ error = <<0, 0>>
  /\ cachedFirmwareVersion = Undefined
  /\ tasks = [id \in TaskIds |-> NoCall(IF id = "plot" THEN "idle" ELSE "exit")]
  /\ fw = VersionLine(<<2, 5, 2>>)
  /\ dev = [pen |-> 0, motors |-> FALSE]
  /\ resolved = {}
  /\ res = NoResponse
  /\ trace = <<>>
  /\ nPlots = 0 /\ nInputs = 0
  /\ paths = <<>> /\ penHome = <<0, 0>> /\ planned = NotPlanned
  /\ restored = NotRestored /\ refined = NotPlanned /\ rewritten = NotRewritten
  /\ \E args \in BlockArgs : built = NotBuilt(args)
  /\ sweep = NotSwept

\* the constructor of Block: it throws or the Block exists
construct(args, via) ==
  IF BlockAccepted(args, epsilonUnit)
    THEN [done |-> TRUE, via |-> via, threw |-> FALSE, args |-> args, blocks |-> <<args>>]
    ELSE [done |-> TRUE, via |-> via, threw |-> TRUE, args |-> args, blocks |-> <<>>]

\* new Block(accel, duration, vInitial, p1, p2)
NewBlock ==
  /\ ~built.done
  /\ built' = construct(built.args, "new")
  /\ UNCHANGED <<server, locals, driver, tasks, board, resolved, res, trace, counts,
                 paths, penHome, planned, restored, refined, rewritten, sweep>>

\* Block.deserialize(o), o the serialized form of the arguments
BlockDeserialize ==
  /\ ~built.done
  /\ LET o == serialize(<<XYMotion(<<built.args>>)>>)[1].blocks[1]
     IN built' = construct(Block(o.accel, o.duration, o.vInitial, o.p1, o.p2), "deserialize")
  /\ UNCHANGED <<server, locals, driver, tasks, board, resolved, res, trace, counts,
                 paths, penHome, planned, restored, refined, rewritten, sweep>>

BlockNext == NewBlock \/ BlockDeserialize

BlockSpec == BlockInit /\ [][BlockNext]_vars

(***************************************************************************)
(* withPenHeights applied to the Plan that plan() returns for a polyline,  *)
(* and to Plans that do not come from plan(): the plans posted to the      *)
(* server, and plans that end with a PenMotion.                            *)
(***************************************************************************)
HandPlans ==
  {Plans[p] : p \in PlanIds}
    \cup { <<PenDown, PenUp, PenDown>>, <<Dot(0), PenDown>>, <<PenDown, Dot(0), PenUp>> }

\* the pairs penUpHeight, penDownHeight that withPenHeights is called with
PenHeights == { <<penUpPos, penDownPos>>, <<19000, 14000>> }

WithPenHeights ==
  /\ ~rewritten.done
  /\ \E src \in HandPlans \cup (IF planned.done THEN {planned.motions} ELSE {}) :
       \E h \in PenHeights :
         rewritten' = [done |-> TRUE, src |-> src, up |-> h[1], down |-> h[2],
                       motions |-> withPenHeights(src, h[1], h[2])]
  /\ UNCHANGED <<server, locals, driver, tasks, board, resolved, res, trace, counts,
                 paths, penHome, planned, restored, refined, built, sweep>>

PenNext == ApplyPlan \/ WithPenHeights

PenSpec == DrawInit /\ [][PenNext]_vars

(***************************************************************************)
(* WebSerialDriver: plot, cancel, pause and resume, on an EBB of its own.  *)
(* Its fields _unpaused, _signalUnpause and _cancelRequested are the       *)
(* variables unpaused, signalUnpause and cancelRequested, the locals of    *)
(* plot are those of doPlot.  The loop of plot is the loop of doPlot,      *)
(* statement for statement, with the callbacks onprogress and onpause in   *)
(* the place of the broadcasts: the actions loopStart to checkCancel model *)
(* both, and plotter = "web" while plot runs.  The callbacks are recorded  *)
(* in the trace as the broadcasts are.                                     *)
(***************************************************************************)
WebInit ==
  /\ plotting = FALSE /\ cancelRequested = FALSE
  /\ unpaused = Null /\ signalUnpause = Null
  /\ motionIdx = Null /\ currentPlan = Null
  /\ ebb = TRUE
  /\ NoLocals
  /\ commandQueue = <<>> /\ microsteppingMode = 0 /\ error = <<0, 0>>
  /\ cachedFirmwareVersion = Undefined
  /\ tasks = [id \in TaskIds |-> NoCall(IF id = "plot" THEN "idle" ELSE "exit")]
  /\ fw \in FirmwareLines
  /\ dev = [pen |-> 0, motors |-> FALSE]
  /\ resolved = {}
  /\ res = NoResponse
  /\ trace = <<>>
  /\ nPlots = 0 /\ nInputs = 0
  /\ paths = <<>> /\ penHome = <<0, 0>> /\ planned = NotPlanned
  /\ restored = NotRestored /\ refined = NotPlanned /\ rewritten = NotRewritten
  /\ built = NotBuilt(Block(0, 0, 0, <<0, 0>>, <<0, 0>>))
  /\ sweep = NotSwept

\* plot(plan), up to the await of enableMotors
WebPlot ==
  /\ Quiescent
  /\ At("plot", "idle")
  /\ nInputs < MaxInputs
  /\ nInputs' = nInputs + 1
  /\ nPlots' = nPlots + 1
  /\ \E p \in PlanIds : plan' = p
  /\ plotter' = "web"
  /\ unpaused' = Null
  /\ cancelRequested' = FALSE
  /\ motionIdx' = 0
  /\ trace' = <<>>
  /\ Call("plot", "enableMotors", "loopStart")
  /\ UNCHANGED <<plotting, signalUnpause, currentPlan, ebb, penIsUp, it, awaited, blk, t,
                 driver, board, resolved>>
  /\ res' = NoResponse
  /\ UNCHANGED planner

\* plot, after the loop: if (this._cancelRequested) { if (!penIsUp) ... }
WebLoopEnd ==
  /\ At("plot", "loopEnd")
  /\ IF cancelRequested
       THEN IF ~penIsUp
         THEN LET pen == firstPenMotion(motions)
                  penUpPosition == IF pen # 0
                                     THEN Max(motions[pen].initialPos, motions[pen].finalPos)
                                     ELSE penUpPos
              IN setPenHeight("plot", penUpPosition, 1000, 0, Null, <<"HM">>)
         ELSE /\ trace' = broadcast("cancelled", <<>>)
              /\ Goto("plot", "waitUntilMotorsIdle")
              /\ UNCHANGED <<commandQueue, dev>>
       ELSE /\ trace' = broadcast("finished", <<>>)
            /\ Goto("plot", "waitUntilMotorsIdle")
            /\ UNCHANGED <<commandQueue, dev>>
  /\ UNCHANGED <<server, locals, microsteppingMode, error, cachedFirmwareVersion,
                 fw, resolved, counts>>
  /\ res' = NoResponse
  /\ UNCHANGED planner

\* await this.ebb.command('HM,4000')
WebHome ==
  /\ At("plot", "HM")
  /\ command("plot", "HM", <<4000>>, Null, <<"oncancelled">>)
  /\ UNCHANGED <<server, locals, microsteppingMode, error, cachedFirmwareVersion,
                 fw, resolved, counts>>
  /\ res' = NoResponse
  /\ UNCHANGED planner

\* this.oncancelled(), after the pen has been raised and the carriage sent home
WebCancelled ==
  /\ At("plot", "oncancelled")
  /\ trace' = broadcast("cancelled", <<>>)
  /\ Goto("plot", "waitUntilMotorsIdle")
  /\ UNCHANGED <<server, locals, driver, board, resolved, counts>>
  /\ res' = NoResponse
  /\ UNCHANGED planner

\* plot returns, or throws: its locals are gone
WebPlotReturn ==
  /\ tasks["plot"].pc \in {"plotReturn", "throw"}
  /\ tasks' = [tasks EXCEPT !["plot"] = NoCall("idle")]
  /\ plan' = Null /\ plotter' = "none" /\ penIsUp' = TRUE /\ it' = 0 /\ awaited' = Null
  /\ blk' = 0 /\ t' = 0
  /\ motionIdx' = Null
  /\ trace' = <<>>
  /\ UNCHANGED <<plotting, cancelRequested, unpaused, signalUnpause, currentPlan, ebb,
                 driver, board, resolved, counts>>
  /\ res' = NoResponse
  /\ UNCHANGED planner

\* cancel()
WebCancel ==
  /\ Quiescent
  /\ nInputs < MaxInputs
  /\ nInputs' = nInputs + 1
  /\ cancelRequested' = TRUE
  /\ UNCHANGED <<plotting, unpaused, signalUnpause, motionIdx, currentPlan, ebb, locals,
                 driver, tasks, board, resolved, trace, nPlots>>
  /\ res' = NoResponse
  /\ UNCHANGED planner

\* pause(): a new promise, whatever _unpaused holds
WebPause ==
  /\ Quiescent
  /\ nInputs < MaxInputs
  /\ nInputs' = nInputs + 1
  /\ unpaused' = NewPromise
  /\ signalUnpause' = NewPromise
  /\ trace' = broadcast("pause", <<paused(TRUE)>>)
  /\ UNCHANGED <<plotting, cancelRequested, motionIdx, currentPlan, ebb, locals, driver,
                 tasks, board, resolved, nPlots>>
  /\ res' = NoResponse
  /\ UNCHANGED planner

\* resume(): signal?.()
WebResume ==
  /\ Quiescent
  /\ IF signalUnpause # Null
       THEN resolved' = Resolve(signalUnpause) /\ UNCHANGED nInputs
       ELSE nInputs < MaxInputs /\ nInputs' = nInputs + 1 /\ UNCHANGED resolved
  /\ unpaused' = Null
  /\ signalUnpause' = Null
  /\ UNCHANGED <<plotting, cancelRequested, motionIdx, currentPlan, ebb, locals, driver,
                 tasks, board, trace, nPlots>>
  /\ res' = NoResponse
  /\ UNCHANGED planner

WebNext ==
  \/ WebPlot \/ WebCancel \/ WebPause \/ WebResume
  \/ loopStart \/ loop \/ executeMotion
  \/ executeXYMotion \/ executeXYMotionWithLM \/ executeXYMotionWithXM
  \/ afterMotion \/ Unpaused \/ checkCancel
  \/ WebLoopEnd \/ WebHome \/ WebCancelled
  \/ waitUntilMotorsIdle \/ waitUntilMotorsIdle_reply \/ WebPlotReturn
  \/ firmwareVersion("plot") \/ firmwareVersionNumber("plot")
  \/ enableMotors("plot") \/ enableMotors_SR("plot")
  \/ disableMotors("plot") \/ disableMotors_SR("plot")
  \/ SerialReply

WebSpec == WebInit /\ [][WebNext]_vars

(***************************************************************************)
(* Properties                                                              *)
(***************************************************************************)
\* C1: a POST /plot that arrives while plotting is true is answered 400 and
\* starts nothing: no serial command, no broadcast, no step of any call chain,
\* and plotting, cancelRequested, unpaused, signalUnpause, motionIdx and
\* currentPlan keep their values; doPlot runs only while plotting is true, so
\* at most one doPlot is active.
C1_RejectedWhilePlotting ==
  /\ [](tasks["plot"].pc # "idle" => plotting)
  /\ [][(PostPlot /\ plotting) =>
          /\ res' = Response("/plot", 400, "Plot in progress")
          /\ UNCHANGED <<plotting, cancelRequested, unpaused, signalUnpause, motionIdx,
                         currentPlan, plan, commandQueue, dev, trace, tasks>>]_vars

\* a plot is waiting for the reply to a motion command and a second POST /plot
\* has just been answered
C1_Witness ==
  /\ res = Response("/plot", 400, "Plot in progress")
  /\ plotting /\ tasks["plot"].pc = "await" /\ motionIdx = 1
  /\ commandQueue # <<>>

(***************************************************************************)
(* The trace of a plot                                                     *)
(***************************************************************************)
Write(cmd, args, m) == Event("write", cmd, args, m)
Bcast(c, a) == Event("bcast", c, a, Null)
Indices(e) == {i \in DOMAIN trace : trace[i] = e}
Has(e) == Indices(e) # {}
IsWriteOf(i, cmds) == trace[i].e = "write" /\ trace[i].c \in cmds

\* the pen height doPlot hands to prePlot and postCancel
initialPenHeight == motions[firstPenMotion(motions)].initialPos

\* doPlot has returned on an EBB; the finally of the request runs next
PlotEnded == ebb /\ tasks["plot"].pc = "plotReturn"

\* executeMotion has run through the motion the loop is at
MotionDone ==
  IF motion.type = "pen"
    THEN \E i \in DOMAIN trace : IsWriteOf(i, {"S2"}) /\ trace[i].m = it - 1
                                   /\ trace[i].a[1] = motion.finalPos
    ELSE IF supportsLM THEN blk > Len(motion.blocks) ELSE t >= duration(motion)

\* the writes of postPlot: QM until idle, EM,0,0, and SR,60000000,0 with SR
PostPlotWrites(from) ==
  LET last == Len(trace)
      em == IF supportsSR THEN last - 1 ELSE last
  IN /\ em > from
     /\ \A j \in from..(em - 1) : trace[j] = Write("QM", <<>>, Null)
     /\ trace[em] = Write("EM", <<0, 0>>, Null)
     /\ supportsSR => trace[last] = Write("SR", <<60000000, 0>>, Null)

\* C2: a plot on an EBB that was cancelled in its motion loop has, when it
\* has ended, completed the motion that was in flight, then written S2 to the
\* pen-up position and HM,4000, then broadcast cancelled, then polled QM
\* until idle and disabled the motors; finished was never broadcast, and
\* plotting is false once the request of the plot is over.
C2_CancelSequence ==
  /\ tasks["plot"].pc = "idle" => ~plotting
  /\ (PlotEnded /\ Has(Bcast("cancelled", <<>>))) =>
    \E c \in Indices(Bcast("cancelled", <<>>)) :
      /\ ~Has(Bcast("finished", <<>>))
      /\ MotionDone
      /\ c > 3
      /\ trace[c - 2] = Write("S2", <<initialPenHeight, OutputPin, 1000, 0>>, Null)
      /\ trace[c - 1] = Write("HM", <<4000>>, Null)
      /\ \A j \in 1..(c - 3) : IsWriteOf(j, {"LM", "XM", "S2"}) => trace[j].m < it
      /\ trace[c - 3].m = it - 1 \/ trace[c - 3].c \in {"progress", "pause"}
      /\ c + 1 < Len(trace)
      /\ PostPlotWrites(c + 1)

\* the plan with two LM blocks per travel was cancelled while its first
\* travel was in flight, and the plot has ended
C2_Witness ==
  /\ PlotEnded /\ Has(Bcast("cancelled", <<>>))
  /\ plan = 1 /\ it = 1 /\ supportsLM /\ ~supportsSR
  /\ Len(SelectSeq(trace, LAMBDA e : e.c = "LM")) = 2

\* doPlot has seen cancelRequested at the end of a loop body and has not returned
CancelLabels == {"postCancel", "postCancel_HM", "cancelled"}
OnCancelPath ==
  /\ plotting
  /\ \/ tasks["plot"].pc = "loopEnd" /\ cancelRequested
     \/ tasks["plot"].pc \in CancelLabels
     \/ \E i \in DOMAIN tasks["plot"].k : tasks["plot"].k[i] \in CancelLabels
     \/ tasks["plot"].pc # "idle" /\ Has(Bcast("cancelled", <<>>))

AfterCancel(e) ==
  \/ e = Write("S2", <<initialPenHeight, OutputPin, 1000, 0>>, Null)
  \/ e = Write("HM", <<4000>>, Null)
  \/ e = Bcast("cancelled", <<>>)
  \/ e = Write("QM", <<>>, Null)
  \/ e = Write("EM", <<0, 0>>, Null)
  \/ e = Write("SR", <<60000000, 0>>, Null)

\* C3: once the loop has seen cancelRequested at the end of a motion, the plot
\* starts no further motion: the loop position stays, and all the plot
\* broadcasts or writes from then on is the post-cancel S2, HM,4000,
\* cancelled, the QM polls and the commands that disable the motors.
C3_NoMotionAfterCancel ==
  /\ [][(tasks["plot"].pc = "checkCancel" /\ cancelRequested /\ tasks'["plot"] # tasks["plot"])
          => OnCancelPath']_vars
  /\ [][OnCancelPath =>
          \/ tasks["plot"].pc = "plotReturn" /\ tasks'["plot"].pc = "idle"
          \/ /\ it' = it
             /\ OnCancelPath'
             /\ \/ trace' = trace
                \/ /\ Len(trace') = Len(trace) + 1
                   /\ SubSeq(trace', 1, Len(trace)) = trace
                   /\ AfterCancel(trace'[Len(trace')])]_vars

\* a cancelled plot of the plan with travels polls QM after the loop was left
\* at its second motion
C3_Witness ==
  /\ OnCancelPath /\ plan = 1 /\ it = 2
  /\ Has(Bcast("cancelled", <<>>))
  /\ trace[Len(trace)] = Write("QM", <<>>, Null)

\* the PenMotions among the motions the loop has executed
PensExecuted == {i \in 1..it : motions[i].type = "pen"}
LastPenExecuted == CHOOSE i \in PensExecuted : \A j \in PensExecuted : j <= i

\* C4: the loop is suspended on "await unpaused" only with the pen up: penIsUp
\* is true, and the last PenMotion executed, if there is one, raised the pen
\* (initialPos < finalPos) and was the last pen command the plot wrote.
C4_PauseOnlyPenUp ==
  tasks["plot"].pc = "paused" =>
    /\ penIsUp
    /\ awaited # Null
    /\ PensExecuted # {} =>
         LET pm == motions[LastPenExecuted]
         IN /\ pm.initialPos < pm.finalPos
            /\ ebb => \E i \in DOMAIN trace :
                 /\ IsWriteOf(i, {"S2"}) /\ trace[i].a[1] = pm.finalPos
                 /\ \A j \in (i + 1)..Len(trace) : ~IsWriteOf(j, {"S2"})

\* the plot of an EBB is suspended after the motion that raised the pen, a
\* pause having been requested while the pen was down
C4_Witness ==
  /\ tasks["plot"].pc = "paused" /\ ebb /\ plan = 1 /\ it = 4
  /\ Has(Write("S2", <<penDownPos, OutputPin, 410, penDuration>>, 1))

\* the loop is suspended on "await unpaused" and the promise is not resolved
Suspended == tasks["plot"].pc = "paused" /\ awaited \notin resolved

\* C5: while the motion loop is suspended on a pause no serial command is
\* written, the motors are not disabled and finished is not broadcast.
C5_SilentWhileSuspended ==
  [][Suspended =>
       /\ Len(commandQueue') <= Len(commandQueue)
       /\ dev' = dev
       /\ ~Has(Bcast("finished", <<>>))']_vars

\* C6: when plotting becomes false after a plot of a plan of plan() on an EBB
\* that finished or was cancelled, the last S2 written set the pen to the
\* pen-up position of the plan and the motors are disabled.
C6_PenUpMotorsOffOnIdle ==
  [][(plotting /\ ~plotting' /\ ebb /\ IsPlannerPlan(motions)
        /\ (Has(Bcast("finished", <<>>)) \/ Has(Bcast("cancelled", <<>>)))) =>
       /\ dev'.pen = initialPenHeight
       /\ ~dev'.motors]_vars

\* C9: at most one command is written and not yet answered.
C9_OneOutstanding == Len(commandQueue) <= 1

IsProgress(e) == e.e = "bcast" /\ e.c = "progress"
IsMotionWrite(e) == e.e = "write" /\ e.m # Null

\* C7: the trace of a plot is ordered by motion index: the progress
\* broadcasts carry 0, 1, 2, ... in this order; a command of motion i is
\* written after progress{i} and before progress{i+1}, it is the command of
\* the i-th motion of the plan (S2 to its final position for a PenMotion, LM
\* or XM for an XYMotion), and no command of an earlier motion follows it;
\* when executeMotion is called progress{motionIdx} is the last event and no
\* command of the plot is unanswered.
C7_OrderedByMotion ==
  LET prog == SelectSeq(trace, IsProgress)
  IN /\ \A k \in DOMAIN prog : prog[k].a = <<k - 1>>
     /\ \A j \in DOMAIN trace : IsMotionWrite(trace[j]) =>
          LET i == trace[j].m
          IN /\ \E h \in 1..(j - 1) : trace[h] = Bcast("progress", <<i>>)
             /\ \A h \in 1..(j - 1) : IsProgress(trace[h]) => trace[h].a[1] <= i
             /\ \A h \in 1..(j - 1) : IsMotionWrite(trace[h]) => trace[h].m <= i
             /\ IF motions[i + 1].type = "pen"
                  THEN trace[j].c = "S2" /\ trace[j].a[1] = motions[i + 1].finalPos
                  ELSE trace[j].c = (IF supportsLM THEN "LM" ELSE "XM")
     /\ tasks["plot"].pc = "executeMotion" =>
          /\ trace # <<>>
          /\ trace[Len(trace)] = Bcast("progress", <<motionIdx>>)
          /\ \A q \in DOMAIN commandQueue : commandQueue[q].owner # "plot"

\* the last travel of the plan with travels is being executed with LM
C7_Witness ==
  /\ ebb /\ plan = 1 /\ motionIdx = 4 /\ supportsLM
  /\ Has(Bcast("progress", <<4>>))
  /\ Len(SelectSeq(trace, LAMBDA e : e.c = "LM")) = 4
  /\ Has(Write("S2", <<penUpPos, OutputPin, 410, penDuration>>, 3))

\* the plot of an EBB has ended after it broadcast finished
NormalEnd == PlotEnded /\ Has(Bcast("finished", <<>>))

XYBlocks(p) == {b \in UNION {{p[i].blocks[j] : j \in DOMAIN p[i].blocks} :
                               i \in {h \in DOMAIN p : p[h].type = "xy"}} : TRUE}
\* the plan has an XY block that moves
HasNonZeroXY(p) == \E b \in XYBlocks(p) : b.p1 # b.p2
\* the plan has an XY block that moves by at least one microstep along an axis
HasMicrostep(p) ==
  \E b \in XYBlocks(p) : \/ Abs(b.p2[1] - b.p1[1]) * stepMultiplier >= Den
                          \/ Abs(b.p2[2] - b.p1[2]) * stepMultiplier >= Den

\* the stream of a finished plot but for its LM commands: EM,1,1 first, the
\* S2 of prePlot before any move, and the writes of postPlot last
StreamFrame ==
  /\ trace[1] = Write("EM", <<1, 1>>, Null)
  /\ \E i \in DOMAIN trace :
       /\ trace[i] = Write("S2", <<initialPenHeight, OutputPin, 1000, 1000>>, Null)
       /\ \A j \in 1..i : ~IsWriteOf(j, {"LM", "XM"})
  /\ \E f \in Indices(Bcast("finished", <<>>)) : PostPlotWrites(f + 1)

\* C8 as claimed: the stream of a plot that ran to normal completion begins
\* with EM,1,1, has the S2 to the first PenMotion's initial position before
\* any LM or XM, has an LM when the firmware supports LM and the plan has an
\* XY motion that is not zero, and ends with EM,0,0, or SR,60000000,0 with SR.
C8_StreamAsClaimed ==
  NormalEnd =>
    /\ StreamFrame
    /\ (supportsLM /\ HasNonZeroXY(motions)) => \E i \in DOMAIN trace : IsWriteOf(i, {"LM"})

\* C8, amended: as claimed, but an LM is promised only when some XY block of
\* the plan moves by at least one microstep along an axis; shorter moves are
\* carried in the error and may never amount to a step.
C8_Stream ==
  NormalEnd =>
    /\ StreamFrame
    /\ (supportsLM /\ HasMicrostep(motions)) => \E i \in DOMAIN trace : IsWriteOf(i, {"LM"})

\* the plan with travels has run to normal completion on a firmware with LM and SR
C8_Witness ==
  /\ NormalEnd /\ plan = 1 /\ supportsLM /\ supportsSR
  /\ HasMicrostep(motions)
  /\ Has(Write("LM", <<56, 56>>, 0))

C11_InvalidPlanAnswered500 ==
  /\ [][(At("plot", "body") /\ plan = InvalidBody /\ tasks'["plot"].pc # "body") =>
          /\ res'.url = "/plot" /\ res'.status = 500
          /\ commandQueue' = commandQueue /\ trace' = <<>> /\ it' = 0]_vars
  /\ [][(At("plot", "throw") /\ plan = InvalidBody) =>
          /\ ~plotting' /\ tasks'["plot"].pc = "idle"
          /\ commandQueue' = commandQueue]_vars

\* C12: when a command of the motion loop is rejected (an error line, or a
\* line other than OK for a command), the request ends with plotting = false
\* and no further write, and exactly one cancelled event has been broadcast
\* for that plot.
C12_RejectionCancelsPlot ==
  [][(/\ At("plot", "throw")
      /\ tasks["plot"].ret \in {errorLine, unexpectedLine}
      /\ it \in 1..Len(motions))
       => /\ ~plotting' /\ tasks'["plot"].pc = "idle"
          /\ commandQueue' = commandQueue
          /\ Cardinality({i \in 1..Len(trace) :
                            trace[i].e = "bcast" /\ trace[i].c = "cancelled"}) = 1]_vars

\* C13: when the serial port is disconnected while a command of a running
\* plot awaits its reply, the command is rejected and the request ends:
\* plotting becomes false again (so that a later POST /plot is accepted).
C13_DisconnectEndsPlot ==
  (plotting /\ ~ebb /\ At("plot", "await")) ~> ~plotting

\* C14: a setPenHeight message that arrives on the websocket while a plot is
\* in progress is rejected: the handler that writes SR and S2 to the serial
\* port for the message is not started.
C14_SetPenHeightRejectedWhilePlotting ==
  [][plotting => ~(At("ws", "exit") /\ tasks'["ws"].pc = "setPenHeight_SR")]_vars

C16_NoDisplacementLost ==
  /\ [][(At("plot", "executeXYMotionWithLM") /\ blk' = blk + 1 /\ tasks'["plot"].pc # "throw") =>
          LET block == motion.blocks[blk]
              a == IF Len(commandQueue') > Len(commandQueue)
                     THEN commandQueue'[Len(commandQueue')].args ELSE <<0, 0>>
              stepsX == (a[1] + a[2]) \div 2
              stepsY == (a[1] - a[2]) \div 2
          IN /\ stepsX * Den + error'[1] = (block.p2[1] - block.p1[1]) * stepMultiplier + error[1]
             /\ stepsY * Den + error'[2] = (block.p2[2] - block.p1[2]) * stepMultiplier + error[2]]_vars
  /\ [][(At("plot", "executeXYMotionWithXM") /\ t' = t + timestepMs) =>
          LET i1 == InstantP(motion, t)
              i2 == InstantP(motion, t')
              a == commandQueue'[Len(commandQueue')].args
          IN /\ Len(commandQueue') = Len(commandQueue) + 1
             /\ a[2] * Den + error'[1] = (i2[1] - i1[1]) * stepMultiplier + error[1]
             /\ a[3] * Den + error'[2] = (i2[2] - i1[2]) * stepMultiplier + error[2]]_vars

\* blocks have been skipped (the error of the y axis has grown to half a
\* microstep without any step), and blocks have been emitted with steps left
\* over (the x axis)
C16_Witness ==
  \/ /\ plan = 2 /\ it = 1 /\ blk = 3 /\ error = <<0, 32>>
     /\ \A i \in 1..Len(trace) : trace[i].c # "LM"
  \/ /\ plan = 1 /\ it = 5 /\ blk = 2 /\ error = <<16, 0>>
     /\ trace[Len(trace)].c = "LM" /\ trace[Len(trace)].a = <<-56, -56>>

\* the version the board reports in its reply to V, if the reply holds one
HasVersion == \E v \in FirmwareVersions : fw = VersionLine(v)
BoardVersion == CHOOSE v \in FirmwareVersions : fw = VersionLine(v)
\* version v is at least version w: major, then minor, then patch
AtLeast(v, w) ==
  \/ v[1] > w[1]
  \/ v[1] = w[1] /\ v[2] > w[2]
  \/ v[1] = w[1] /\ v[2] = w[2] /\ v[3] >= w[3]
\* the command written by the step, if the step writes one
Written(cmd) ==
  /\ Len(commandQueue') = Len(commandQueue) + 1
  /\ commandQueue'[Len(commandQueue')].cmd = cmd

\* C17 as claimed: LM is written only when the version read from V is at
\* least 2.5.3, XM only when it is not, and SR only when it is at least 2.6.0.
C17_GatingAsClaimed ==
  /\ [][Written("LM") => (HasVersion /\ AtLeast(BoardVersion, <<2, 5, 3>>))]_vars
  /\ [][Written("XM") => ~(HasVersion /\ AtLeast(BoardVersion, <<2, 5, 3>>))]_vars
  /\ [][Written("SR") => (HasVersion /\ AtLeast(BoardVersion, <<2, 6, 0>>))]_vars

\* C17, amended: LM is written only when the version in the reply to V is at
\* least 2.5.3 or the last word of the reply is not a version; XM is written
\* only when the reply holds a version below 2.5.3; SR is written only when
\* the version is at least 2.6.0 or the last word of the reply is not a version.
C17_Gating ==
  /\ [][Written("LM") => (HasVersion => AtLeast(BoardVersion, <<2, 5, 3>>))]_vars
  /\ [][Written("XM") => (HasVersion /\ ~AtLeast(BoardVersion, <<2, 5, 3>>))]_vars
  /\ [][Written("SR") => (HasVersion => AtLeast(BoardVersion, <<2, 6, 0>>))]_vars

\* a plot on firmware 2.5.3 has executed an XY motion with LM and has ended
\* without any SR
C17_Witness ==
  /\ fw = VersionLine(<<2, 5, 3>>) /\ At("plot", "plotReturn") /\ plotter = "real"
  /\ \E i \in 1..Len(trace) : trace[i].c = "LM"
  /\ \A i \in 1..Len(trace) : trace[i].c \notin {"XM", "SR"}

C21_RoundTrip ==
  restored.done =>
    /\ ~restored.threw
    /\ Len(restored.motions) = Len(planned.motions)
    /\ \A i \in 1..Len(planned.motions) : restored.motions[i] = planned.motions[i]
    /\ serialize(restored.motions) = restored.data

\* a plan of two paths, one of them drawn with a trapezoid, has been restored
C21_Witness ==
  /\ restored.done /\ ~restored.threw
  /\ Len(restored.motions) = 9
  /\ \E i \in {3, 7} : Len(restored.motions[i].blocks) = 3
  /\ restored.data[2].duration = penDuration

\* the XY motions of the plans made so far, with the profile of each
XYMotionsOf(ms) ==
  { [blocks |-> ms[i].blocks,
     profile |-> IF i % 4 = 3 THEN penDownProfile ELSE penUpProfile] :
    i \in {j \in 1..Len(ms) : j % 2 = 1} }

XYMotionsMade == XYMotionsOf(planned.motions) \cup XYMotionsOf(refined.motions)

\* every block of the plans made so far is exactly what the code computes
BlocksExact ==
  \A m \in XYMotionsMade : \A i \in 1..Len(m.blocks) : BlockExact(m.blocks[i])

C23_WithinProfile ==
  \A m \in XYMotionsMade : \A i \in 1..Len(m.blocks) :
    LET b == m.blocks[i]
    IN /\ Abs(b.accel) <= m.profile.acceleration
       /\ b.vInitial <= m.profile.maximumVelocity
       /\ b.vInitial + b.accel * b.duration <= m.profile.maximumVelocity

\* a draw motion whose first segment is accelerated over as a whole (to 8, then
\* to the maximum 10 in the next segment) and whose last segment made the
\* planner go back and enter it at 8
C23_Witness ==
  /\ planned.done
  /\ paths = << << <<0, 0>>, <<16, 0>>, <<434, 0>>, <<450, 0>> >> >>
  /\ planned.motions[3].blocks =
       << Block(2, 4, 0, <<0, 0>>, <<16, 0>>), Block(2, 1, 8, <<16, 0>>, <<25, 0>>),
          Block(0, 40, 10, <<25, 0>>, <<425, 0>>), Block(-2, 1, 10, <<425, 0>>, <<434, 0>>),
          Block(-2, 4, 8, <<434, 0>>, <<450, 0>>) >>

C25_ResumeReleasesLoop ==
  [][(At("plot", "paused") /\ signalUnpause # Null /\ signalUnpause' = Null
        /\ plotter = "web")
       => awaited \in resolved']_vars

\* plot of WebSerialDriver has returned
WebPlotEnded == plotter = "web" /\ tasks["plot"].pc = "plotReturn"

\* C26: when plot of WebSerialDriver has ended because of a cancel, HM,4000
\* was written before the motors were disabled, whether the pen was up or
\* down when the loop saw the cancel flag, and if the pen was down an S2 that
\* raises it to the up-position of the plan was written before the HM,4000.
C26_HomedOnCancel ==
  (WebPlotEnded /\ Has(Bcast("cancelled", <<>>))) =>
    \E h \in Indices(Write("HM", <<4000>>, Null)) :
      /\ \E e \in Indices(Write("EM", <<0, 0>>, Null)) : h < e
      /\ ~penIsUp => \E s \in 1..(h - 1) :
                       trace[s] = Write("S2", <<initialPenHeight, OutputPin, 1000, 0>>, Null)

\* C27: in the server a POST /pause received while a pause is pending leaves
\* unpaused and signalUnpause as they are, so that one POST /resume releases
\* the motion loop that is suspended on the pause, however many pause requests
\* came before it; a POST /resume with no pause pending changes nothing of the
\* supervisor's state.
C27_PauseIdempotent ==
  /\ [][(res'.url = "/pause" /\ unpaused # Null)
          => UNCHANGED <<unpaused, signalUnpause>>]_vars
  /\ [][(res'.url = "/resume" /\ At("plot", "paused"))
          => (awaited \in resolved' /\ unpaused' = Null /\ signalUnpause' = Null)]_vars
  /\ [][(res'.url = "/resume" /\ signalUnpause = Null)
          => UNCHANGED <<server, locals, driver, tasks, resolved, trace>>]_vars

\* the loop of the first plot suspended on the promise of a POST /pause, one
\* more request came in (a second POST /pause leaves the promise as it is),
\* and a POST /resume has just resolved the promise the loop awaits
C27_Witness ==
  /\ res.url = "/resume" /\ At("plot", "paused")
  /\ nPlots = 1 /\ nInputs = 3
  /\ awaited = 2 /\ awaited \in resolved
  /\ unpaused = Null /\ signalUnpause = Null

\* doPlot is past its loop, or no plot is running
AfterLoop ==
  \/ tasks["plot"].pc = "idle"
  \/ OnCancelPath
  \/ Has(Bcast("finished", <<>>))
CountOf(e) == Cardinality(Indices(e))
Broadcasts(c) == Len(trace') = Len(trace) + 1 /\ trace'[Len(trace')] = Bcast(c, <<>>)

\* C28: a POST /cancel received while post-cancel or post-plot runs, or while
\* no plot runs, changes nothing of the plot: no task moves and nothing is
\* written.  Per plot, HM,4000 is written at most once and cancelled is
\* broadcast at most once, after exactly one HM,4000 on an EBB.  The request
\* does not cancel the next plot: doPlot starts with cancelRequested false,
\* the flag becomes true by a POST /cancel only, and cancelled is broadcast
\* only with the flag true.
C28_LateCancelIsNoOp ==
  /\ [][(res'.url = "/cancel" /\ AfterLoop)
          => UNCHANGED <<plotting, motionIdx, currentPlan, locals, driver, tasks, board,
                         trace>>]_vars
  /\ [](/\ CountOf(Write("HM", <<4000>>, Null)) <= 1
        /\ CountOf(Bcast("cancelled", <<>>)) <= 1
        /\ (Has(Bcast("cancelled", <<>>)) /\ plotter = "real")
             => CountOf(Write("HM", <<4000>>, Null)) = 1
        /\ ~(Has(Bcast("cancelled", <<>>)) /\ Has(Bcast("finished", <<>>))))
  /\ [][(At("plot", "doPlot") /\ ~At("plot", "doPlot")') => ~cancelRequested']_vars
  /\ [][(~cancelRequested /\ cancelRequested') => res'.url = "/cancel"]_vars
  /\ [][Broadcasts("cancelled") => cancelRequested]_vars

\* a cancelled plot on an EBB has ended with one HM,4000 and one cancelled,
\* and a second POST /cancel came in after the flag was reset, while postPlot
\* was running
C28_Witness ==
  /\ PlotEnded /\ plotter = "real"
  /\ CountOf(Bcast("cancelled", <<>>)) = 1
  /\ CountOf(Write("HM", <<4000>>, Null)) = 1
  /\ cancelRequested

\* a step in which a line that begins with '!' arrives from the board
ErrorReply ==
  SerialError /\ (Head(commandQueue).owner = "plot" => tasks'["plot"].ret # unexpectedLine)

\* C29: a reply line that begins with '!' rejects the oldest pending command
\* and no other: that command leaves the queue, its caller gets the rejection
\* instead of a reply, the commands behind it stay pending and their callers
\* stay suspended, and nothing is written to the port in that step.  The
\* driver does not write the rejected command again: the plot that got the
\* rejection ends without a further write.
C29_ErrorRejectsOldest ==
  /\ [][ErrorReply =>
          LET c == Head(commandQueue)
          IN /\ commandQueue' = Tail(commandQueue)
             /\ tasks'[c.owner].pc \in {"throw", "exit"}
             /\ tasks'[c.owner].k = <<>>
             /\ \A id \in TaskIds \ {c.owner} : tasks'[id] = tasks[id]
             /\ trace' = trace /\ dev' = dev]_vars
  /\ [][(At("plot", "throw") /\ tasks["plot"].ret = errorLine
           /\ tasks'["plot"] # tasks["plot"])
          => (tasks'["plot"].pc = "idle" /\ commandQueue' = commandQueue /\ dev' = dev)]_vars

\* the command of the plot was rejected by an error line while the command
\* of a websocket message was pending behind it
C29_Witness ==
  /\ At("plot", "throw") /\ tasks["plot"].ret = errorLine
  /\ Len(commandQueue) = 1
  /\ commandQueue[1].owner # "plot"
  /\ tasks[commandQueue[1].owner].pc = "await"

\* C30: no move command is written with both step counts zero, neither LM
\* (whose two arguments are stepsX + stepsY and stepsX - stepsY, both zero
\* exactly when stepsX and stepsY are) nor XM (duration, stepsX, stepsY).
C30_NoZeroMove ==
  \A i \in DOMAIN trace :
    /\ IsWriteOf(i, {"LM"}) => (trace[i].a[1] # 0 \/ trace[i].a[2] # 0)
    /\ IsWriteOf(i, {"XM"}) => (trace[i].a[2] # 0 \/ trace[i].a[3] # 0)

\* the plot writes its EM,0,0 in this step
PlotDisablesMotors ==
  /\ Written("EM")
  /\ commandQueue'[Len(commandQueue')].owner = "plot"
  /\ commandQueue'[Len(commandQueue')].args = <<0, 0>>

\* C31: at the end of a plot EM,0,0 is written only after the reply to a QM
\* that reports command status and FIFO status "0", and that QM was written
\* after every motion command of the plot was acknowledged (the plot has no
\* command pending and QM is the last thing it wrote).  After a QM reply that
\* reports otherwise the plot polls again and does not disable the motors;
\* after an idle reply it polls no more.
C31_IdleBeforeDisable ==
  /\ [][PlotDisablesMotors =>
          /\ tasks["plot"].ret = idleLine
          /\ trace # <<>> /\ trace[Len(trace)] = Write("QM", <<>>, Null)
          /\ \A i \in DOMAIN commandQueue : commandQueue[i].owner # "plot"]_vars
  /\ [][(At("plot", "waitUntilMotorsIdle_reply") /\ tasks["plot"].ret \in busyLines
           /\ tasks'["plot"] # tasks["plot"])
          => (At("plot", "waitUntilMotorsIdle")' /\ commandQueue' = commandQueue)]_vars
  /\ [](\A i, j \in DOMAIN trace :
          (trace[i] = Write("EM", <<0, 0>>, Null) /\ i < j) => trace[j].c # "QM")

\* a plot has ended after a QM reply that reported motion in progress: it
\* polled QM more than once before it disabled the motors
C31_Witness ==
  /\ PlotEnded
  /\ CountOf(Write("QM", <<>>, Null)) >= 2
  /\ Has(Write("EM", <<0, 0>>, Null))

\* the PenMotions of a plan, in order
PenMotionsOf(ms) == SelectSeq(ms, LAMBDA m : m.type = "pen")

\* what withPenHeights keeps, as claimed and in fact: the number and order of
\* the motions, every XYMotion, and the duration of every PenMotion
KeepsShape(src, out) ==
  /\ Len(out) = Len(src)
  /\ \A j \in 1..Len(src) :
       IF src[j].type = "xy" THEN out[j] = src[j]
       ELSE out[j].type = "pen" /\ duration(out[j]) = duration(src[j])

\* C32 as claimed: withPenHeights(up, down) keeps the number and order of the
\* motions, every XYMotion and the duration of every PenMotion, and the
\* PenMotions of the result go alternately from up to down and from down to
\* up, the first from up to down; applied to the result of plan() with its
\* own pen heights it gives an equal plan.
C32_AlternatesAsClaimed ==
  rewritten.done =>
    LET pens == PenMotionsOf(rewritten.motions)
    IN /\ KeepsShape(rewritten.src, rewritten.motions)
       /\ \A i \in 1..Len(pens) :
            /\ pens[i].initialPos = (IF i % 2 = 1 THEN rewritten.up ELSE rewritten.down)
            /\ pens[i].finalPos = (IF i % 2 = 1 THEN rewritten.down ELSE rewritten.up)
       /\ (planned.done /\ rewritten.src = planned.motions
             /\ rewritten.up = penUpPos /\ rewritten.down = penDownPos)
            => rewritten.motions = planned.motions

\* C32, amended: as claimed, except that a PenMotion that is the last motion
\* of the plan always goes from down to up.
C32_Alternates ==
  rewritten.done =>
    LET src == rewritten.src
        out == rewritten.motions
    IN /\ KeepsShape(src, out)
       /\ \A j \in 1..Len(src) :
            src[j].type = "pen" =>
              LET toDown == j # Len(src) /\ penMotionIndex(src, j) % 2 = 0
              IN /\ out[j].initialPos = (IF toDown THEN rewritten.up ELSE rewritten.down)
                 /\ out[j].finalPos = (IF toDown THEN rewritten.down ELSE rewritten.up)
       /\ (planned.done /\ src = planned.motions
             /\ rewritten.up = penUpPos /\ rewritten.down = penDownPos)
            => out = planned.motions

\* withPenHeights has rewritten the two PenMotions of a plan() result with
\* other heights
C32_Witness ==
  /\ rewritten.done /\ rewritten.up = 19000
  /\ planned.done /\ rewritten.src = planned.motions
  /\ rewritten.motions[2] = PenMotion(19000, 14000, penDuration)
  /\ rewritten.motions[4] = PenMotion(14000, 19000, penDuration)
  /\ rewritten.motions[3] = planned.motions[3]

\* vInitial + accel * duration of the arguments of the Block
RawFinalVelocity(args) == args.vInitial + args.accel * args.duration

\* C33: new Block and Block.deserialize throw, and no Block comes to exist,
\* when vInitial < 0 or when vInitial + accel * duration < -epsilon; so every
\* Block that exists has vInitial >= 0 and vFinal >= 0.
C33_BlockInvariant ==
  built.done =>
    /\ (built.args.vInitial < 0 \/ RawFinalVelocity(built.args) < -epsilonUnit)
         => (built.threw /\ built.blocks = <<>>)
    /\ \A i \in DOMAIN built.blocks :
         built.blocks[i].vInitial >= 0 /\ vFinal(built.blocks[i]) >= 0

\* Block.deserialize has thrown on a block that starts at rest and would end
\* at a velocity of -2 epsilon
C33_Witness ==
  /\ built.done /\ built.via = "deserialize" /\ built.threw /\ built.blocks = <<>>
  /\ built.args.vInitial = 0 /\ RawFinalVelocity(built.args) = -2

\* C34: a POST /cancel received while plotting is true is not lost, also when
\* it arrives before the motion loop has started: the plot ends with
\* cancelled.  Stated here for the requests that arrive while the body of the
\* accepted POST /plot is still being received, for the plan of one point.
C34_CancelNotLost ==
  (res.url = "/cancel" /\ plotting /\ At("plot", "body") /\ plan = 1 /\ cancelRequested)
    ~> Has(Bcast("cancelled", <<>>))

\* C35: in WebSerialDriver a cancel() called while the loop of plot is
\* suspended on a pause releases the loop, as POST /cancel does in the server:
\* the promise the loop awaits is resolved by the call, so that the plot ends
\* with oncancelled and the motors disabled without any resume().
C35_CancelReleasesPause ==
  [][(plotter = "web" /\ At("plot", "paused") /\ awaited \notin resolved
        /\ ~cancelRequested /\ cancelRequested')
       => awaited \in resolved']_vars

\* the step reads a line from the port; the line
ReadsLine == Len(trace') = Len(trace) + 1 /\ trace'[Len(trace')].e = "read"
LineRead == trace'[Len(trace')].a

\* C36: reply lines are paired with commands in FIFO order.  A non-empty line
\* that arrives while commands are pending goes to the oldest of them and
\* changes nothing of the others; the oldest command leaves the queue, and
\* its caller gets the value or the rejection, exactly when its reply state
\* machine is done with that line (any line for query and command, OK for
\* queryM, whose value is the lines before the OK) or the line is an error;
\* otherwise it stays the oldest and keeps the line.  An empty line, and a
\* line that arrives when nothing is pending, changes nothing; a command
\* issued later starts with no line and its caller waits.
C36_FifoPairing ==
  /\ [][(ReadsLine /\ (LineRead = emptyLine \/ commandQueue = <<>>))
          => UNCHANGED <<commandQueue, tasks>>]_vars
  /\ [][(ReadsLine /\ LineRead # emptyLine /\ commandQueue # <<>>) =>
          LET c == Head(commandQueue)
              part == LineRead
              failed == part[1] = "!" \/ (c.kind = "command" /\ part # OK)
              leaves == failed \/ c.kind \in {"query", "command"} \/ part = OK
          IN /\ \A id \in TaskIds \ {c.owner} : tasks'[id] = tasks[id]
             /\ IF leaves
                  THEN /\ commandQueue' = Tail(commandQueue)
                       /\ IF failed THEN tasks'[c.owner].pc \in {"throw", "exit"}
                          ELSE /\ tasks'[c.owner].pc = "caller"
                               /\ tasks'[c.owner].ret =
                                    (IF c.kind = "queryM" THEN c.lines ELSE part)
                  ELSE /\ commandQueue' = <<[c EXCEPT !.lines = Append(c.lines, part)]>>
                                             \o Tail(commandQueue)
                       /\ tasks' = tasks]_vars
  /\ [][Len(commandQueue') > Len(commandQueue) =>
          /\ commandQueue' = Append(commandQueue, commandQueue'[Len(commandQueue')])
          /\ commandQueue'[Len(commandQueue')].lines = <<>>
          /\ tasks'[commandQueue'[Len(commandQueue')].owner].pc = "await"]_vars
  /\ [](\A i \in DOMAIN commandQueue : tasks[commandQueue[i].owner].pc = "await")

\* the oldest command, a queryM, has been given a line and waits for more,
\* and the query of the other caller, issued after it, has been given none
C36_Witness ==
  /\ Len(commandQueue) = 2
  /\ commandQueue[1].owner = "plot" /\ commandQueue[1].kind = "queryM"
  /\ commandQueue[1].lines = <<dataLine>>
  /\ commandQueue[2].owner = "ws" /\ commandQueue[2].kind = "query"
  /\ commandQueue[2].lines = <<>>
  /\ tasks["plot"].pc = "await" /\ tasks["ws"].pc = "await"
  /\ Len(SelectSeq(trace, LAMBDA e : e.e = "read")) = 1

\* the terminal events of the plot that runs, and the index of its last write
TerminalEvents == CountOf(Bcast("cancelled", <<>>)) + CountOf(Bcast("finished", <<>>))
LastWrite ==
  LET W == {i \in DOMAIN trace : trace[i].e = "write"}
  IN IF W = {} THEN 0 ELSE CHOOSE i \in W : \A j \in W : j <= i
\* doPlot has left its motion loop without an error: it has returned, or it
\* has thrown in a command of postCancel or postPlot
PostLoopWrite(e) ==
  \/ e.c \in {"HM", "QM"}
  \/ e = Write("EM", <<0, 0>>, Null)
  \/ e = Write("SR", <<60000000, 0>>, Null)
  \/ e.c = "S2" /\ e.m = Null /\ e.a[4] = 0
LoopEnded ==
  \/ tasks["plot"].pc = "plotReturn"
  \/ tasks["plot"].pc = "throw" /\ LastWrite > 0 /\ PostLoopWrite(trace[LastWrite])
BroadcastsTerminal == Broadcasts("cancelled") \/ Broadcasts("finished")

\* C37: a plot whose motion loop has ended without an error has, when it
\* ends, broadcast exactly one of cancelled and finished; the event is
\* broadcast with no command of the plot unacknowledged and before the plot
\* writes EM,0,0; finished is broadcast only with the loop past the last motion
\* of the plan and no cancel requested.
C37_OneTerminalEvent ==
  /\ [][(LoopEnded /\ tasks'["plot"].pc = "idle") => TerminalEvents = 1]_vars
  /\ [](TerminalEvents <= 1)
  /\ [][BroadcastsTerminal
          => /\ \A i \in DOMAIN commandQueue : commandQueue[i].owner # "plot"
             /\ ~Has(Write("EM", <<0, 0>>, Null))]_vars
  /\ [][Broadcasts("finished") => (it = Len(motions) + 1 /\ ~cancelRequested)]_vars

\* the messages the server sends to a client that connects (wss.on
\* 'connection'): dev, svgio-enabled and pause always, progress and plan when
\* motionIdx and currentPlan are not null
connectionMessages ==
  {"dev", "svgio-enabled", "pause"}
    \cup (IF motionIdx # Null THEN {"progress"} ELSE {})
    \cup (IF currentPlan # Null THEN {"plan"} ELSE {})
\* the motion loop of doPlot is at one of the motions of the plan
InLoop == plotting /\ it \in 1..Len(motions) /\ ~OnCancelPath /\ tasks["plot"].pc # "throw"

\* C38: whenever plotting is false, also after a plot that an error has
\* aborted, motionIdx and currentPlan are null and a client that connects is
\* sent neither progress nor plan; while the motion loop runs, motionIdx is
\* at least 0 and less than the number of motions of the plan.
C38_IdleStateIsNull ==
  /\ ~plotting => /\ motionIdx = Null /\ currentPlan = Null
                  /\ connectionMessages \cap {"progress", "plan"} = {}
  /\ InLoop => motionIdx \in 0..(Len(motions) - 1)
\* the second half alone
C38_IndexInRange == InLoop => motionIdx \in 0..(Len(motions) - 1)

\* a step that sets a pause, a step that releases one, and a step that
\* broadcasts pause{paused: b}
SetsPause == unpaused = Null /\ unpaused' # Null
ReleasesPause == unpaused # Null /\ unpaused' = Null
BroadcastsPause(b) ==
  Len(trace') = Len(trace) + 1 /\ trace'[Len(trace')] = Bcast("pause", <<paused(b)>>)

\* C39: a POST /pause that sets a pause broadcasts pause{paused: true}; a
\* step that releases the pause (POST /resume, POST /cancel, the start of
\* doPlot) either broadcasts pause{paused: false} or resolves the promise the
\* motion loop is suspended on, whose continuation broadcasts it.
C39_PauseChangesBroadcast ==
  /\ [][SetsPause => BroadcastsPause(TRUE)]_vars
  /\ [][ReleasesPause => (BroadcastsPause(FALSE) \/ awaited' \in resolved')]_vars
\* the two halves alone
C39_SetIsBroadcast == [][SetsPause => BroadcastsPause(TRUE)]_vars
C39_ReleaseIsBroadcast ==
  [][ReleasesPause => (BroadcastsPause(FALSE) \/ awaited' \in resolved')]_vars

(***************************************************************************)
(* constantAccelerationPlan alone: its while loop, one iteration a step,   *)
(* on the polylines of the lines above and both acceleration profiles      *)
(***************************************************************************)
\* the segments the loop starts with: one per pair of deduplicated points,
\* with the corner velocities, and the segment of length 0 that ends the path
sweepSegments(points, profile) ==
  LET dedupedPoints == dedupPoints(points)
      lastPoint == dedupedPoints[Len(dedupedPoints)]
      segments == [k \in 1..(Len(dedupedPoints) - 1) |->
                     [Segment(dedupedPoints[k], dedupedPoints[k + 1]) EXCEPT
                        !.maxEntryVelocity =
                          IF k = 1 THEN 0
                          ELSE cornerVelocity(Segment(dedupedPoints[k - 1], dedupedPoints[k]),
                                              Segment(dedupedPoints[k], dedupedPoints[k + 1]),
                                              profile.maximumVelocity)]]
  IN Append(segments, Segment(lastPoint, lastPoint))

\* one iteration of the loop with a backtrack that leaves maxEntryVelocity
sweepIteration_KeepsVelocity(segments, i, profile) ==
  LET segment == segments[i]
      accel == profile.acceleration
      vMax == profile.maximumVelocity
      d == distance(segment)
      vInitial == segment.entryVelocity
      vExit == segments[i + 1].maxEntryVelocity
      m == computeTriangle(d, vInitial, vExit, accel, segment.p1, segment.p2)
      z == computeTrapezoid(d, vInitial, vMax, vExit, accel, segment.p1, segment.p2)
      vEnd == Sqrt(vInitial * vInitial + 2 * accel * d)
  IN IF m.s1 < 0
       THEN [segments |-> segments, i |-> i - 1]
     ELSE IF m.s2 <= 0
       THEN [segments |-> [segments EXCEPT
                             ![i].blocks = << Block(accel, (vEnd - vInitial) \div accel,
                                                    vInitial, segment.p1, segment.p2) >>,
                             ![i + 1].entryVelocity = vEnd],
             i |-> i + 1]
     ELSE IF m.vMax > vMax
       THEN [segments |-> [segments EXCEPT
                             ![i].blocks = << Block(accel, z.t1, vInitial, z.p1, z.p2),
                                              Block(0, z.t2, vMax, z.p2, z.p3),
                                              Block(-accel, z.t3, vMax, z.p3, z.p4) >>,
                             ![i + 1].entryVelocity = vExit],
             i |-> i + 1]
     ELSE [segments |-> [segments EXCEPT
                           ![i].blocks = << Block(accel, m.t1, vInitial, m.p1, m.p2),
                                            Block(-accel, m.t2, m.vMax, m.p2, m.p3) >>,
                           ![i + 1].entryVelocity = vExit],
           i |-> i + 1]

\* one iteration of the while loop, at segment i (1-based)
sweepIteration(segments, i, profile) ==
  LET segment == segments[i]
      accel == profile.acceleration
      vMax == profile.maximumVelocity
      d == distance(segment)
      vInitial == segment.entryVelocity
      vExit == segments[i + 1].maxEntryVelocity
      m == computeTriangle(d, vInitial, vExit, accel, segment.p1, segment.p2)
      z == computeTrapezoid(d, vInitial, vMax, vExit, accel, segment.p1, segment.p2)
      vEnd == Sqrt(vInitial * vInitial + 2 * accel * d)
  IN IF m.s1 < 0
       THEN [segments |-> [segments EXCEPT ![i].maxEntryVelocity =
                                             Sqrt(vExit * vExit + 2 * accel * d)],
             i |-> i - 1]
     ELSE IF m.s2 <= 0
       THEN [segments |-> [segments EXCEPT
                             ![i].blocks = << Block(accel, (vEnd - vInitial) \div accel,
                                                    vInitial, segment.p1, segment.p2) >>,
                             ![i + 1].entryVelocity = vEnd],
             i |-> i + 1]
     ELSE IF m.vMax > vMax
       THEN [segments |-> [segments EXCEPT
                             ![i].blocks = << Block(accel, z.t1, vInitial, z.p1, z.p2),
                                              Block(0, z.t2, vMax, z.p2, z.p3),
                                              Block(-accel, z.t3, vMax, z.p3, z.p4) >>,
                             ![i + 1].entryVelocity = vExit],
             i |-> i + 1]
     ELSE [segments |-> [segments EXCEPT
                           ![i].blocks = << Block(accel, m.t1, vInitial, m.p1, m.p2),
                                            Block(-accel, m.t2, m.vMax, m.p2, m.p3) >>,
                           ![i + 1].entryVelocity = vExit],
           i |-> i + 1]

\* the polylines that have a segment
SweepPolylines == {pl \in DrawPolylines \cup Polylines : Len(dedupPoints(pl)) > 1}

SweepInit ==
  /\ plotting = FALSE /\ cancelRequested = FALSE
  /\ unpaused = Null /\ signalUnpause = Null
  /\ motionIdx = Null /\ currentPlan = Null
  /\ ebb = FALSE
  /\ NoLocals
  /\ commandQueue = <<>> /\ microsteppingMode = 0 /\ error = <<0, 0>>
  /\ cachedFirmwareVersion = Undefined
  /\ tasks = [id \in TaskIds |-> NoCall(IF id = "plot" THEN "idle" ELSE "exit")]
  /\ fw = VersionLine(<<2, 5, 2>>)
  /\ dev = [pen |-> 0, motors |-> FALSE]
  /\ resolved = {}
  /\ res = NoResponse
  /\ trace = <<>>
  /\ nPlots = 0 /\ nInputs = 0
  /\ paths \in {<<pl>> : pl \in SweepPolylines}
  /\ penHome = <<0, 0>>
  /\ planned = NotPlanned
  /\ restored = NotRestored /\ refined = NotPlanned /\ rewritten = NotRewritten
  /\ built = NotBuilt(Block(0, 0, 0, <<0, 0>>, <<0, 0>>))
  /\ \E profile \in {penUpProfile, penDownProfile} :
       sweep = [segments |-> sweepSegments(paths[1], profile), i |-> 1, profile |-> profile]

\* while (i < segments.length - 1) { ... }
SweepStep ==
  /\ sweep.i >= 1
  /\ sweep.i < Len(sweep.segments)
  /\ LET next == sweepIteration(sweep.segments, sweep.i, sweep.profile)
     IN sweep' = [sweep EXCEPT !.segments = next.segments, !.i = next.i]
  /\ UNCHANGED <<server, locals, driver, tasks, board, resolved, res, trace, counts,
                 paths, penHome, planned, restored, refined, rewritten, built>>

SweepNext == SweepStep

SweepSpec == SweepInit /\ [][SweepNext]_vars
\* the loop is not stopped from outside
FairSweepSpec == SweepSpec /\ WF_vars(SweepStep)

SweepEnded == sweep.i >= Len(sweep.segments)
Backtracks == sweep'.i = sweep.i - 1

\* C40: the while loop of constantAccelerationPlan ends for every polyline;
\* its index never goes below the first segment, whose entry velocity is 0
\* and which never backtracks; a backtrack strictly lowers the
\* maxEntryVelocity of the segment it leaves, and no maxEntryVelocity exceeds
\* the maximum velocity of the profile.  The loop then has computed what
\* planSegments computes.
C40_SweepTerminates ==
  /\ <>SweepEnded
  /\ [](sweep.i >= 1)
  /\ [](sweep.segments[1].entryVelocity = 0)
  /\ [][Backtracks => sweep.i > 1]_vars
  /\ [][Backtracks => sweep'.segments[sweep.i].maxEntryVelocity
                        < sweep.segments[sweep.i].maxEntryVelocity]_vars
  /\ [](\A k \in DOMAIN sweep.segments :
          sweep.segments[k].maxEntryVelocity <= sweep.profile.maximumVelocity)
  /\ [](SweepEnded => sweep.segments
                        = planSegments(sweepSegments(paths[1], sweep.profile), 1, sweep.profile))
\* the loop has ended after a backtrack: a segment's maxEntryVelocity is
\* neither 0 nor the maximum velocity, the two values cornerVelocity gives
C40_Witness ==
  /\ SweepEnded
  /\ \E k \in DOMAIN sweep.segments :
       /\ sweep.segments[k].maxEntryVelocity > 0
       /\ sweep.segments[k].maxEntryVelocity < sweep.profile.maximumVelocity

=============================================================================
